---- MODULE Spec2Model ----
(***************************************************************************)
(* A model of gbcc's block-structured dataflow engine (src/dataflow):      *)
(* the graph, the lattices of the example clients, the forward worklist    *)
(* driver with its rewrite protocol, and the backward driver.              *)
(***************************************************************************)
EXTENDS Integers, Sequences, FiniteSets, TLC

VARIABLES
    mode,        \* the engine entry point that was called
    analysis,    \* the client analysis driving the run
    graph,       \* Graph: label -> block (entry, code, exit); borrowed, read-only
    entry,       \* the entry label handed to the engine
    entry_fact,  \* the entry fact handed to forward_analysis
    fact_base,   \* FactBase<F>: a map label -> fact
    to_visit,    \* the worklist, a Vec<Label> popped from its end
    pc,          \* where the engine is
    label,       \* the label being analysed
    fact,        \* the fact threaded through the block being analysed
    block,       \* the visit's own clone of the block
    index,       \* position in block.code (1-based here, 0-based in the source)
    output,      \* the fact base the block visit returned
    pending,     \* successors (predecessors) of the block not yet joined
    trace,       \* history: the callbacks of the current visit
    analysed,    \* history: label -> the fact its latest visit started from
    rewritten    \* history: label -> the block as its latest visit left it

vars == <<mode, analysis, graph, entry, entry_fact, fact_base, to_visit, pc,
          label, fact, block, index, output, pending, trace, analysed, rewritten>>

-----------------------------------------------------------------------------
(* Bounds of the model *)

\* Labels 1..NumLabels of the generated graphs.
NumLabels == 2

-----------------------------------------------------------------------------
(* Generic helpers *)

Range(s) == {s[i] : i \in 1..Len(s)}

EmptyMap == <<>>

\* FnvHashMap::insert
MapInsert(m, k, v) == [x \in DOMAIN m \cup {k} |-> IF x = k THEN v ELSE m[x]]

Reverse(s) == [i \in 1..Len(s) |-> s[Len(s) + 1 - i]]

Min(S) == CHOOSE x \in S : \A y \in S : x <= y

RECURSIVE BitAnd(_, _)
BitAnd(a, b) ==
    IF a = 0 \/ b = 0 THEN 0
    ELSE (IF a % 2 = 1 /\ b % 2 = 1 THEN 1 ELSE 0) + 2 * BitAnd(a \div 2, b \div 2)

RECURSIVE BitOr(_, _)
BitOr(a, b) ==
    IF a = 0 THEN b
    ELSE IF b = 0 THEN a
    ELSE (IF a % 2 = 1 \/ b % 2 = 1 THEN 1 ELSE 0) + 2 * BitOr(a \div 2, b \div 2)

-----------------------------------------------------------------------------
(* The RISC-like language of the tests (src/main.rs) *)

Load(var, c) == [op |-> "Load", dst |-> var, c |-> c]
Arith(ar, dst, src1, src2) == [op |-> "Arith", ar |-> ar, dst |-> dst, src1 |-> src1, src2 |-> src2]

Cond(l1, l2) == [op |-> "Cond", l1 |-> l1, l2 |-> l2]
Jump(l) == [op |-> "Jump", l1 |-> l]
Ret == [op |-> "Ret"]

\* A second language, for a client that exercises the whole rewrite protocol:
\* the RISC instructions and exits, and
\*   Macro(body)             an instruction the client replaces by body
\*   Call                    an instruction the client replaces by a sub-graph
\*   Alias(succ, exit)       an exit the client replaces by exit
\*   Thunk(succ, insts, exit) an exit the client replaces by insts and exit
\*   TailCall                an exit the client replaces by a sub-graph
\* succ is what Exit::successors answers for the exit.
Macro(body) == [op |-> "Macro", body |-> body]
Call == [op |-> "Call"]
Alias(succ, exit) == [op |-> "Alias", succ |-> succ, exit |-> exit]
Thunk(succ, insts, exit) == [op |-> "Thunk", succ |-> succ, insts |-> insts, exit |-> exit]
TailCall == [op |-> "TailCall"]

\* Exit::successors
successors(exit) ==
    CASE exit.op = "Cond" -> <<exit.l1, exit.l2>>
      [] exit.op = "Jump" -> <<exit.l1>>
      [] exit.op = "Ret" -> <<>>
      [] exit.op \in {"Alias", "Thunk"} -> exit.succ
      [] exit.op = "TailCall" -> <<>>

\* BasicBlock::new(entry, code, exit); the entry marker is RiscEntry::Label(l)
BasicBlock(l, code, exit) == [entry |-> l, code |-> code, exit |-> exit]

\* BasicBlock::label: a block's label is its entry's label
BlockLabel(b) == b.entry

\* BasicBlock::successors: a block's successors are its exit's successors
BlockSuccessors(b) == successors(b.exit)

\* Graph::from_blocks: a later block with the same label overwrites an earlier one
RECURSIVE from_blocks(_)
from_blocks(blocks) ==
    IF blocks = <<>> THEN EmptyMap
    ELSE LET n == Len(blocks)
         IN MapInsert(from_blocks(SubSeq(blocks, 1, n - 1)), BlockLabel(blocks[n]), blocks[n])

\* contains with the test inverted
contains_negated(g, l) == l \notin DOMAIN g

\* Graph::contains
contains(g, l) == l \in DOMAIN g

\* Graph::post_order_traversal. st = [output, visited, ok, open, open_at]; ok
\* is FALSE once graph.blocks[&label] was indexed with a label the map does not
\* hold. History: open is the set of labels whose call of go has not returned,
\* open_at[l] is that set at the moment l was pushed on the output.
RECURSIVE go(_, _, _)
RECURSIVE go_successors(_, _, _, _)

\* go pushing the label before it follows the successors
go_pre_order(g, st, l) ==
    IF ~st.ok THEN st
    ELSE IF l \in st.visited THEN st
    ELSE IF l \notin DOMAIN g THEN [st EXCEPT !.visited = @ \cup {l}, !.ok = FALSE]
    ELSE LET st1 == [st EXCEPT !.visited = @ \cup {l}, !.open = @ \cup {l},
                               !.output = Append(@, l),
                               !.open_at = MapInsert(@, l, st.open \cup {l})]
             st2 == go_successors(g, st1, BlockSuccessors(g[l]), 1)
         IN IF st2.ok THEN [st2 EXCEPT !.open = @ \ {l}] ELSE st2

\* go_successors following the first successor only
go_first_successor(g, st, succs, i) ==
    IF i > Len(succs) \/ i > 1 THEN st ELSE go(g, st, succs[i])

go(g, st, l) ==
    IF ~st.ok THEN st
    ELSE IF l \in st.visited THEN st
    ELSE IF l \notin DOMAIN g THEN [st EXCEPT !.visited = @ \cup {l}, !.ok = FALSE]
    ELSE LET st1 == [st EXCEPT !.visited = @ \cup {l}, !.open = @ \cup {l}]
             st2 == go_successors(g, st1, BlockSuccessors(g[l]), 1)
         IN IF st2.ok THEN [st2 EXCEPT !.output = Append(@, l),
                                       !.open_at = MapInsert(@, l, st2.open),
                                       !.open = @ \ {l}]
            ELSE st2

go_successors(g, st, succs, i) ==
    IF i > Len(succs) THEN st
    ELSE go_successors(g, go(g, st, succs[i]), succs, i + 1)

post_order_traversal(g, e) ==
    go(g, [output |-> <<>>, visited |-> {}, ok |-> TRUE, open |-> {},
           open_at |-> EmptyMap], e)

\* The labels reachable from e by following block successors.
RECURSIVE ReachableFrom(_, _)
ReachableFrom(g, S) ==
    LET next == S \cup UNION {Range(BlockSuccessors(g[l])) : l \in S \cap DOMAIN g}
    IN IF next = S THEN S ELSE ReachableFrom(g, next)

Reachable(g, e) == ReachableFrom(g, {e})

-----------------------------------------------------------------------------
(* Lattices. A join yields [fact, changed, ok]: the fact as left in *self, *)
(* the bool returned, and ok = FALSE when the join panicked.                *)

\* Option<Vec<Label>> of DominatorFact.dominates
None == [some |-> FALSE, v |-> <<>>]
Some(path) == [some |-> TRUE, v |-> path]

\* DominatorFact::bottom
DominatorBottom == None

\* DominatorJoin without the truncation
DominatorJoinKeep(self, other) ==
    IF ~self.some THEN [fact |-> other, changed |-> TRUE, ok |-> TRUE]
    ELSE [fact |-> self, changed |-> FALSE, ok |-> TRUE]

\* DominatorFact::join
DominatorJoin(self, other) ==
    IF ~self.some THEN [fact |-> other, changed |-> TRUE, ok |-> TRUE]
    ELSE IF ~other.some THEN [fact |-> self, changed |-> FALSE, ok |-> TRUE]
    ELSE LET diverge == {i \in 1..Len(self.v) :
                             i > Len(other.v) \/ self.v[i] # other.v[i]}
         IN IF diverge = {} THEN [fact |-> self, changed |-> FALSE, ok |-> TRUE]
            ELSE IF Min(diverge) > Len(other.v)
                 \* other_dominates[index]: index out of bounds
                 THEN [fact |-> self, changed |-> FALSE, ok |-> FALSE]
            ELSE [fact |-> Some(SubSeq(self.v, 1, Min(diverge) - 1)),
                  changed |-> TRUE, ok |-> TRUE]

\* WithTop<Constant>
Top == [top |-> TRUE, c |-> 0]
Elem(c) == [top |-> FALSE, c |-> c]

\* ConstFact::new / ConstFact::bottom: no variable is known
ConstBottom == EmptyMap

\* ConstFact::set
ConstSet(f, var, c) == MapInsert(f, var, Elem(c))

\* ConstFact::get_const: the constant of var, or -1 for Option::None
get_const(f, var) ==
    IF var \in DOMAIN f /\ ~f[var].top THEN f[var].c ELSE -1

\* ConstJoinVar keeping the stored constant when the two constants differ
ConstJoinVarKeep(self, k, v) ==
    IF k \in DOMAIN self /\ self[k].top THEN Top
    ELSE IF v.top THEN Top
    ELSE IF k \in DOMAIN self THEN Elem(self[k].c)
    ELSE v

\* the match of ConstFact::join for one key k of other.vars
ConstJoinVar(self, k, v) ==
    IF k \in DOMAIN self /\ self[k].top THEN Top
    ELSE IF v.top THEN Top
    ELSE IF k \in DOMAIN self THEN (IF self[k].c = v.c THEN Elem(self[k].c) ELSE Top)
    ELSE v

\* ConstFact::join
ConstJoin(self, other) ==
    LET changedKeys == {k \in DOMAIN other :
                            ~(k \in DOMAIN self /\ self[k] = ConstJoinVar(self, k, other[k]))}
    IN [fact |-> [k \in DOMAIN self \cup changedKeys |->
                     IF k \in changedKeys THEN ConstJoinVar(self, k, other[k]) ELSE self[k]],
        changed |-> changedKeys # {},
        ok |-> TRUE]

\* DominatorFact::join of the per-instruction engine (src/pc/dominator.rs)
PcDominatorJoin(self, other) ==
    IF ~self.some THEN [fact |-> other, changed |-> TRUE, ok |-> TRUE]
    ELSE IF ~other.some THEN [fact |-> self, changed |-> FALSE, ok |-> TRUE]
    ELSE LET diverge == {i \in 1..Len(self.v) :
                             i > Len(other.v) \/ self.v[i] # other.v[i]}
         IN IF diverge = {} THEN [fact |-> self, changed |-> FALSE, ok |-> TRUE]
            ELSE IF Min(diverge) > Len(other.v)
                 \* other_dominates[index]: index out of bounds
                 THEN [fact |-> self, changed |-> FALSE, ok |-> FALSE]
            ELSE [fact |-> Some(SubSeq(self.v, 1, Min(diverge) - 1)),
                  changed |-> TRUE, ok |-> TRUE]

\* the match of ConstFact::join of the per-instruction engine's test
\* (src/pc/test.rs) for one key of other.vars; Option<isize>: None is Top
PcConstJoinVar(self, k, v) ==
    IF k \in DOMAIN self
    THEN IF ~self[k].top THEN (IF self[k] # v THEN Top ELSE self[k])
         ELSE self[k]
    ELSE v

\* ConstFact::join of src/pc/test.rs
PcConstJoin(self, other) ==
    LET changedKeys == {k \in DOMAIN other :
                            \/ k \notin DOMAIN self
                            \/ ~self[k].top /\ self[k] # other[k]}
    IN [fact |-> [k \in DOMAIN self \cup DOMAIN other |->
                     IF k \in DOMAIN other THEN PcConstJoinVar(self, k, other[k])
                     ELSE self[k]],
        changed |-> changedKeys # {},
        ok |-> TRUE]

\* Lattice::join of each lattice of the clients and tests
LatticeJoin(lat, self, other) ==
    CASE lat = "dataflow::DominatorFact" -> DominatorJoin(self, other)
      [] lat = "pc::DominatorFact" -> PcDominatorJoin(self, other)
      [] lat = "ConstFact" -> ConstJoin(self, other)
      [] lat = "pc::ConstFact" -> PcConstJoin(self, other)

\* The lattice of each client: F::bottom and F::join
Bottom(a) == IF a = "DominatorAnalysis" THEN DominatorBottom ELSE ConstBottom

Join(a, self, other) ==
    IF a = "DominatorAnalysis" THEN DominatorJoin(self, other) ELSE ConstJoin(self, other)

-----------------------------------------------------------------------------
(* The rewrite protocol (src/dataflow/analysis.rs)                          *)

\* Option<RewriteInstruction<L>>
NoRewrite == [kind |-> "None"]
\* AnalyzeInstruction::replace
replace(inst) == [kind |-> "Single", inst |-> inst]
\* AnalyzeInstruction::replace_many
replace_many(insts) == [kind |-> "Multiple", insts |-> insts]
\* AnalyzeInstruction::replace_with_graph
replace_with_graph == [kind |-> "Graph"]

\* RewriteExit<L, F>
Done(facts) == [kind |-> "Done", facts |-> facts]
ExitSingle(exit) == [kind |-> "Single", exit |-> exit]
ExitExtend(insts, exit) == [kind |-> "Extend", insts |-> insts, exit |-> exit]
ExitGraph == [kind |-> "Graph"]

\* distribute_facts: the same fact for every successor of the exit
distribute_facts(exit, f) == [s \in Range(successors(exit)) |-> f]

-----------------------------------------------------------------------------
(* Client: DominatorAnalysis (src/dataflow/dominator.rs)                    *)

\* fact.dominates.get_or_insert(vec![]).push(entry.label())
DominatorAnalyzeEntry(e, f) == Some(Append(f.v, e))

DominatorAnalyzeInstruction(inst, f) == [fact |-> f, rewrite |-> NoRewrite, ok |-> TRUE]

DominatorAnalyzeExit(exit, f) == Done(distribute_facts(exit, f))

-----------------------------------------------------------------------------
(* Client: ConstantPropagation (src/main.rs)                                *)

\* the folded value of an Arith over usize constants; -1 when a subtraction
\* goes below zero (the overflow check of the test build aborts there; no run
\* explored subtracts below zero)
ArithResult(ar, c1, c2) ==
    CASE ar = "Add" -> c1 + c2
      [] ar = "Sub" -> IF c1 >= c2 THEN c1 - c2 ELSE -1
      [] ar = "And" -> BitAnd(c1, c2)
      [] ar = "Or" -> BitOr(c1, c2)

ConstAnalyzeEntry(e, f) == f

ConstAnalyzeInstruction(inst, f) ==
    IF inst.op = "Load"
    THEN [fact |-> ConstSet(f, inst.dst, inst.c), rewrite |-> NoRewrite, ok |-> TRUE]
    ELSE LET c1 == get_const(f, inst.src1)
             c2 == get_const(f, inst.src2)
         IN IF c1 >= 0 /\ c2 >= 0
            THEN [fact |-> f,
                  rewrite |-> replace(Load(inst.dst, ArithResult(inst.ar, c1, c2))),
                  ok |-> ArithResult(inst.ar, c1, c2) >= 0]
            ELSE [fact |-> f, rewrite |-> NoRewrite, ok |-> TRUE]

ConstAnalyzeExit(exit, f) ==
    CASE exit.op = "Cond" -> Done(MapInsert(MapInsert(EmptyMap, exit.l1, f), exit.l2, f))
      [] exit.op = "Jump" -> Done(MapInsert(EmptyMap, exit.l1, f))
      [] exit.op = "Ret" -> Done(EmptyMap)

-----------------------------------------------------------------------------
(* Client: RewriteProbe, a ForwardAnalysis over ConstFact that answers each *)
(* instruction and exit of the second language with the request it stands   *)
(* for, and the RISC ones as ConstantPropagation does.                      *)

ProbeAnalyzeEntry(e, f) == f

ProbeAnalyzeInstruction(inst, f) ==
    CASE inst.op = "Macro" -> [fact |-> f, rewrite |-> replace_many(inst.body), ok |-> TRUE]
      [] inst.op = "Call" -> [fact |-> f, rewrite |-> replace_with_graph, ok |-> TRUE]
      [] inst.op \in {"Load", "Arith"} -> ConstAnalyzeInstruction(inst, f)

ProbeAnalyzeExit(exit, f) ==
    CASE exit.op = "Alias" -> ExitSingle(exit.exit)
      [] exit.op = "Thunk" -> ExitExtend(exit.insts, exit.exit)
      [] exit.op = "TailCall" -> ExitGraph
      [] exit.op \in {"Cond", "Jump", "Ret"} -> Done(distribute_facts(exit, f))

-----------------------------------------------------------------------------
(* The client contract ForwardAnalysis<L, F>, dispatched on the client      *)

analyze_entry(a, e, f) ==
    CASE a = "DominatorAnalysis" -> DominatorAnalyzeEntry(e, f)
      [] a = "ConstantPropagation" -> ConstAnalyzeEntry(e, f)
      [] a = "RewriteProbe" -> ProbeAnalyzeEntry(e, f)

analyze_instruction(a, inst, f) ==
    CASE a = "DominatorAnalysis" -> DominatorAnalyzeInstruction(inst, f)
      [] a = "ConstantPropagation" -> ConstAnalyzeInstruction(inst, f)
      [] a = "RewriteProbe" -> ProbeAnalyzeInstruction(inst, f)

analyze_exit(a, exit, f) ==
    CASE a = "DominatorAnalysis" -> DominatorAnalyzeExit(exit, f)
      [] a = "ConstantPropagation" -> ConstAnalyzeExit(exit, f)
      [] a = "RewriteProbe" -> ProbeAnalyzeExit(exit, f)

-----------------------------------------------------------------------------
(* The forward engine (src/dataflow/analysis.rs)                            *)

\* a sub-graph request that is answered by going on as if the visit were over
UnimplementedIgnored == "done"

\* panic!("Unimplemented") / panic!("not implemented yet"): where a sub-graph
\* request takes the engine
Unimplemented == "panic_unimplemented"

\* Vec::splice(start..end, insts) with 0-based start, end; panics when the
\* range ends past the vector
Splice(code, start, end, insts) ==
    IF end > Len(code) THEN [code |-> code, ok |-> FALSE]
    ELSE [code |-> SubSeq(code, 1, start) \o insts \o SubSeq(code, end + 1, Len(code)),
          ok |-> TRUE]

\* the range replace_many's instructions are spliced over, 0-based index
ForwardSpliceEnd(index0, insts) == index0 + Len(insts)

\* or_insert_with_bottom overwriting a fact that is already stored
or_insert_bottom_always(a, fb, s) == Bottom(a)

\* fact_base.entry(successor).or_insert_with(F::bottom)
or_insert_with_bottom(a, fb, s) == IF s \in DOMAIN fb THEN fb[s] ELSE Bottom(a)

\* Requeue with the push left out
RequeueDropped(tv, s, changed) == tv

\* Requeue pushing whether or not the join reported a change
RequeueAlways(tv, s, changed) == IF s \notin Range(tv) THEN Append(tv, s) ELSE tv

\* Requeue without the membership test
RequeueUnchecked(tv, s, changed) == IF changed THEN Append(tv, s) ELSE tv

\* if the join reported a change: push the successor unless it is pending
Requeue(tv, s, changed) ==
    IF changed /\ s \notin Range(tv) THEN Append(tv, s) ELSE tv

\* NextIndex stepping over the instruction that follows a None answer
NextIndexSkip(i, kind) == IF kind = "None" THEN i + 2 ELSE i

\* NextIndex advancing after every answer
NextIndexAlways(i, kind) == i + 1

\* the index after an instruction callback: only a None answer advances
NextIndex(i, kind) == IF kind = "None" THEN i + 1 ELSE i

\* GraphAfterVisit writing the exit of the visit's block back into the graph
GraphAfterVisitExit(g, l, b) == [g EXCEPT ![l].exit = b.exit]

\* GraphAfterVisit writing the visit's block back into the graph
GraphAfterVisitInPlace(g, l, b) == [g EXCEPT ![l] = b]

\* the graph after a visit: the visit worked on its own clone of the block
\* and returns facts only, the graph is behind a shared reference
GraphAfterVisit(g, l, b) == g

\* the callbacks of a visit are recorded up to MaxTrace entries
MaxTrace == 12
Record(tr, e) == IF Len(tr) < MaxTrace THEN Append(tr, e) ELSE tr

NoBlock == BasicBlock(0, <<>>, Ret)

\* fixed_point_forward_block as a function of the block and the fact it starts
\* from: the map the exit handler's Done carries, ok = FALSE when the visit
\* panics. The visits explored take fewer than MaxBlockSteps callbacks.
MaxBlockSteps == 16

RECURSIVE forward_block_loop(_, _, _, _, _)
forward_block_loop(a, b, f, i, fuel) ==
    IF fuel = 0 THEN [ok |-> FALSE, facts |-> EmptyMap]
    ELSE IF i <= Len(b.code)
    THEN LET r == analyze_instruction(a, b.code[i], f)
             sp == Splice(b.code, i - 1, ForwardSpliceEnd(i - 1, r.rewrite.insts),
                          r.rewrite.insts)
         IN CASE ~r.ok -> [ok |-> FALSE, facts |-> EmptyMap]
              [] r.ok /\ r.rewrite.kind = "None" ->
                    forward_block_loop(a, b, r.fact, NextIndex(i, "None"), fuel - 1)
              [] r.ok /\ r.rewrite.kind = "Single" ->
                    forward_block_loop(a, [b EXCEPT !.code[i] = r.rewrite.inst], r.fact,
                                       NextIndex(i, "Single"), fuel - 1)
              [] r.ok /\ r.rewrite.kind = "Multiple" ->
                    IF sp.ok
                    THEN forward_block_loop(a, [b EXCEPT !.code = sp.code], r.fact,
                                            NextIndex(i, "Multiple"), fuel - 1)
                    ELSE [ok |-> FALSE, facts |-> EmptyMap]
              [] r.ok /\ r.rewrite.kind = "Graph" -> [ok |-> FALSE, facts |-> EmptyMap]
    ELSE LET r == analyze_exit(a, b.exit, f)
         IN CASE r.kind = "Done" -> [ok |-> TRUE, facts |-> r.facts]
              [] r.kind = "Single" ->
                    forward_block_loop(a, [b EXCEPT !.exit = r.exit], f, i, fuel - 1)
              [] r.kind = "Extend" ->
                    forward_block_loop(a, [b EXCEPT !.code = @ \o r.insts, !.exit = r.exit],
                                       f, i, fuel - 1)
              [] r.kind = "Graph" -> [ok |-> FALSE, facts |-> EmptyMap]

fixed_point_forward_block(a, g, l, fb) ==
    forward_block_loop(a, g[l], analyze_entry(a, g[l].entry, fb[l]), 1, MaxBlockSteps)

\* forward_analysis: seed the fact base with the entry fact, then the
\* post-order traversal that seeds the worklist
\* the worklist seeded with the traversal reversed
ForwardSeedReversed(po) == Reverse(po)

\* let mut to_visit = graph.post_order_traversal(entry)
ForwardSeed(po) == po

forward_analysis ==
    /\ pc = "call"
    /\ mode = "forward_analysis"
    /\ fact_base' = MapInsert(EmptyMap, entry, entry_fact)
    /\ LET t == post_order_traversal(graph, entry)
       IN IF t.ok THEN to_visit' = ForwardSeed(t.output) /\ pc' = "loop"
          ELSE to_visit' = <<>> /\ pc' = "panic_no_block"
    /\ UNCHANGED <<mode, analysis, graph, entry, entry_fact, label, fact, block,
                   index, output, pending, trace, analysed, rewritten>>

\* while let Some(label) = to_visit.pop(), up to the clone of the block
ForwardPop ==
    /\ pc = "loop"
    /\ mode = "forward_analysis"
    /\ IF to_visit = <<>>
       THEN /\ pc' = "done"
            /\ UNCHANGED <<to_visit, label, fact, block, index, trace, analysed>>
       ELSE LET l == to_visit[Len(to_visit)]
            IN /\ to_visit' = SubSeq(to_visit, 1, Len(to_visit) - 1)
               /\ label' = l
               /\ IF ~contains(graph, l)
                  THEN /\ pc' = "loop"
                       /\ UNCHANGED <<fact, block, index, trace, analysed>>
                  ELSE IF l \notin DOMAIN fact_base
                  THEN \* expect("We should always have a fact to start from")
                       /\ pc' = "panic_no_fact"
                       /\ UNCHANGED <<fact, block, index, trace, analysed>>
                  ELSE /\ pc' = "entry"
                       /\ fact' = fact_base[l]
                       /\ block' = graph[l]
                       /\ index' = 1
                       /\ trace' = <<>>
                       /\ analysed' = MapInsert(analysed, l, fact_base[l])
    /\ UNCHANGED <<mode, analysis, graph, entry, entry_fact, fact_base, output,
                   pending, rewritten>>

\* fact = analysis.analyze_entry(graph, label, &block.entry, fact)
ForwardAnalyzeEntry ==
    /\ pc = "entry"
    /\ mode = "forward_analysis"
    /\ fact' = analyze_entry(analysis, block.entry, fact)
    /\ trace' = Record(trace, [cb |-> "entry", at |-> 0, item |-> block.entry,
                               fact_in |-> fact, fact_out |-> fact',
                               resp |-> NoRewrite])
    /\ pc' = "code"
    /\ UNCHANGED <<mode, analysis, graph, entry, entry_fact, fact_base, to_visit,
                   label, block, index, output, pending, analysed, rewritten>>

\* one turn of while index < block.code.len()
ForwardAnalyzeInstruction ==
    /\ pc = "code"
    /\ mode = "forward_analysis"
    /\ index <= Len(block.code)
    /\ LET r == analyze_instruction(analysis, block.code[index], fact)
           sp == Splice(block.code, index - 1,
                        ForwardSpliceEnd(index - 1, r.rewrite.insts), r.rewrite.insts)
       IN /\ trace' = Record(trace, [cb |-> "instruction", at |-> index,
                                     item |-> block.code[index], fact_in |-> fact,
                                     fact_out |-> r.fact, resp |-> r.rewrite])
          /\ fact' = r.fact
          /\ CASE ~r.ok -> pc' = "panic_client" /\ UNCHANGED <<block, index>>
               [] r.ok /\ r.rewrite.kind = "None" ->
                    /\ pc' = "code"
                    /\ index' = NextIndex(index, "None")
                    /\ UNCHANGED block
               [] r.ok /\ r.rewrite.kind = "Single" ->
                    /\ pc' = "code"
                    /\ block' = [block EXCEPT !.code[index] = r.rewrite.inst]
                    /\ index' = NextIndex(index, "Single")
               [] r.ok /\ r.rewrite.kind = "Multiple" ->
                    IF sp.ok
                    THEN /\ pc' = "code"
                         /\ block' = [block EXCEPT !.code = sp.code]
                         /\ index' = NextIndex(index, "Multiple")
                    ELSE pc' = "panic_splice" /\ UNCHANGED <<block, index>>
               [] r.ok /\ r.rewrite.kind = "Graph" ->
                    pc' = Unimplemented /\ UNCHANGED <<block, index>>
    /\ UNCHANGED <<mode, analysis, graph, entry, entry_fact, fact_base, to_visit,
                   label, output, pending, analysed, rewritten>>

\* the new instructions put in front of the code
ExtendCodeFront(code, insts) == insts \o code

\* block.code.extend(insts)
ExtendCode(code, insts) == code \o insts

\* the labels joined into, taken from the block of the visit
JoinTargetsRewritten(g, l, b) == BlockSuccessors(b)

\* for successor in graph[label].successors(): the successors of the block
\* of the graph, not of the clone the visit rewrote
JoinTargets(g, l, b) == BlockSuccessors(g[l])

\* match analysis.analyze_exit(graph, label, &block.exit, &fact)
ForwardAnalyzeExit ==
    /\ pc = "code"
    /\ mode = "forward_analysis"
    /\ index > Len(block.code)
    /\ LET r == analyze_exit(analysis, block.exit, fact)
       IN /\ trace' = Record(trace, [cb |-> "exit", at |-> index, item |-> block.exit,
                                     fact_in |-> fact, fact_out |-> fact, resp |-> r])
          /\ CASE r.kind = "Done" ->
                    /\ output' = r.facts
                    /\ pending' = JoinTargets(graph, label, block)
                    /\ pc' = IF JoinTargets(graph, label, block) = <<>> THEN "loop" ELSE "join"
                    /\ graph' = GraphAfterVisit(graph, label, block)
                    /\ rewritten' = MapInsert(rewritten, label, block)
                    /\ UNCHANGED block
               [] r.kind = "Single" ->
                    /\ block' = [block EXCEPT !.exit = r.exit]
                    /\ pc' = "code"
                    /\ UNCHANGED <<output, pending, graph, rewritten>>
               [] r.kind = "Extend" ->
                    /\ block' = [block EXCEPT !.code = ExtendCode(@, r.insts),
                                              !.exit = r.exit]
                    /\ pc' = "code"
                    /\ UNCHANGED <<output, pending, graph, rewritten>>
               [] r.kind = "Graph" ->
                    /\ pc' = Unimplemented
                    /\ UNCHANGED <<block, output, pending, graph, rewritten>>
    /\ UNCHANGED <<mode, analysis, entry, entry_fact, fact_base, to_visit, label,
                   fact, index, analysed>>

\* the fact base keeping the joined fact only when the join reported a change
StoreJoinedIfChanged(fb, s, j) == IF j.changed THEN MapInsert(fb, s, j.fact) ELSE fb

\* fact_base.entry(successor).or_insert_with(F::bottom), joined in place: the
\* successor has a fact from now on, whether or not the join changed it
StoreJoined(fb, s, j) == MapInsert(fb, s, j.fact)

\* one turn of for successor in graph[label].successors()
ForwardJoinSuccessor ==
    /\ pc = "join"
    /\ mode = "forward_analysis"
    /\ LET s == Head(pending)
           old_fact == or_insert_with_bottom(analysis, fact_base, s)
       IN IF s \notin DOMAIN output
          THEN \* output_fact_base[&successor]: no such key
               pc' = "panic_no_key" /\ UNCHANGED <<fact_base, to_visit, pending, trace>>
          ELSE LET j == Join(analysis, old_fact, output[s])
               IN IF ~j.ok
                  THEN pc' = "panic_join" /\ UNCHANGED <<fact_base, to_visit, pending, trace>>
                  ELSE /\ fact_base' = StoreJoined(fact_base, s, j)
                       /\ to_visit' = Requeue(to_visit, s, j.changed)
                       /\ pending' = Tail(pending)
                       /\ pc' = IF Tail(pending) = <<>> THEN "loop" ELSE "join"
                       /\ trace' = Record(trace,
                              [cb |-> "join", at |-> 0, item |-> s,
                               fact_in |-> old_fact, fact_out |-> j.fact,
                               resp |-> [kind |-> "Join", changed |-> j.changed,
                                         was_pending |-> s \in Range(to_visit)]])
    /\ UNCHANGED <<mode, analysis, graph, entry, entry_fact, label, fact, block,
                   index, output, analysed, rewritten>>

-----------------------------------------------------------------------------
(* The backward engine (src/dataflow/backward_analysis.rs)                  *)

\* the worklist seeded with the traversal as it is
BackwardSeedForward(po) == po

\* let mut to_visit = graph.post_order_traversal(entry); to_visit.reverse()
BackwardSeed(po) == Reverse(po)

\* backward_analysis: an empty fact base, then the reversed post-order
\* traversal that seeds the worklist
backward_analysis ==
    /\ pc = "call"
    /\ mode = "backward_analysis"
    /\ fact_base' = EmptyMap
    /\ LET t == post_order_traversal(graph, entry)
       IN IF t.ok THEN to_visit' = BackwardSeed(t.output) /\ pc' = "loop"
          ELSE to_visit' = <<>> /\ pc' = "panic_no_block"
    /\ UNCHANGED <<mode, analysis, graph, entry, entry_fact, label, fact, block,
                   index, output, pending, trace, analysed, rewritten>>

\* fixed_point_backward_graph called on its own, on a fact base that holds a
\* fact for every block
fixed_point_backward_graph ==
    /\ pc = "call"
    /\ mode = "fixed_point_backward_graph"
    /\ LET t == post_order_traversal(graph, entry)
       IN IF t.ok THEN to_visit' = BackwardSeed(t.output) /\ pc' = "loop"
          ELSE to_visit' = <<>> /\ pc' = "panic_no_block"
    /\ UNCHANGED <<mode, analysis, graph, entry, entry_fact, fact_base, label, fact,
                   block, index, output, pending, trace, analysed, rewritten>>

BackwardGraphRun == mode \in {"backward_analysis", "fixed_point_backward_graph"}

\* while let Some(label) = to_visit.pop(), up to the clone of the block
BackwardPop ==
    /\ pc = "loop"
    /\ BackwardGraphRun
    /\ IF to_visit = <<>>
       THEN /\ pc' = "done"
            /\ UNCHANGED <<to_visit, label, fact, block, index, trace, analysed>>
       ELSE LET l == to_visit[Len(to_visit)]
            IN /\ to_visit' = SubSeq(to_visit, 1, Len(to_visit) - 1)
               /\ label' = l
               /\ IF ~contains(graph, l)
                  THEN /\ pc' = "loop"
                       /\ UNCHANGED <<fact, block, index, trace, analysed>>
                  ELSE IF l \notin DOMAIN fact_base
                  THEN \* expect("We should always have a fact to start from")
                       /\ pc' = "panic_no_fact"
                       /\ UNCHANGED <<fact, block, index, trace, analysed>>
                  ELSE /\ pc' = "exit"
                       /\ fact' = fact_base[l]
                       /\ block' = graph[l]
                       /\ index' = 0
                       /\ trace' = <<>>
                       /\ analysed' = MapInsert(analysed, l, fact_base[l])
    /\ UNCHANGED <<mode, analysis, graph, entry, entry_fact, fact_base, output,
                   pending, rewritten>>

\* Client: BackwardProbe, a BackwardAnalysis over ConstFact that answers each
\* instruction and exit of the second language with the request it stands for;
\* a RISC exit ends the exit loop, a Load sets its destination, and the entry
\* handler hands the fact to every block that has the label as a successor.
BackwardProbeAnalyzeExit(exit, f) ==
    CASE exit.op = "Alias" -> [fact |-> f, rewrite |-> ExitSingle(exit.exit)]
      [] exit.op = "Thunk" -> [fact |-> f, rewrite |-> ExitExtend(exit.insts, exit.exit)]
      [] exit.op = "TailCall" -> [fact |-> f, rewrite |-> ExitGraph]
      [] exit.op \in {"Cond", "Jump", "Ret"} -> [fact |-> f, rewrite |-> NoRewrite]

BackwardProbeAnalyzeInstruction(inst, f) ==
    CASE inst.op = "Macro" -> [fact |-> f, rewrite |-> replace_many(inst.body)]
      [] inst.op = "Call" -> [fact |-> f, rewrite |-> replace_with_graph]
      [] inst.op = "Load" -> [fact |-> ConstSet(f, inst.dst, inst.c), rewrite |-> NoRewrite]
      [] inst.op = "Arith" -> [fact |-> f, rewrite |-> NoRewrite]

BackwardProbeAnalyzeEntry(g, l, f) ==
    [p \in {q \in DOMAIN g : l \in Range(BlockSuccessors(g[q]))} |-> f]

\* Graph::direct_predecessors: the labels of the blocks that have l among
\* their successors
direct_predecessors(g, l) == {q \in DOMAIN g : l \in Range(BlockSuccessors(g[q]))}

\* the orders in which the labels of a set can be listed
Orders(S) ==
    {seq \in [1..Cardinality(S) -> S] : \A i, j \in 1..Cardinality(S) : i # j => seq[i] # seq[j]}

\* fixed_point_backward_block called on its own: the fact of the label and the
\* clone of its block
fixed_point_backward_block ==
    /\ pc = "call"
    /\ mode = "fixed_point_backward_block"
    /\ label' = entry
    /\ IF entry \notin DOMAIN fact_base
       THEN pc' = "panic_no_fact" /\ UNCHANGED <<fact, block, index, trace>>
       ELSE /\ pc' = "exit"
            /\ fact' = fact_base[entry]
            /\ block' = graph[entry]
            /\ index' = 0
            /\ trace' = <<>>
    /\ UNCHANGED <<mode, analysis, graph, entry, entry_fact, fact_base, to_visit,
                   output, pending, analysed, rewritten>>

BackwardVisit ==
    mode \in {"backward_analysis", "fixed_point_backward_graph", "fixed_point_backward_block"}

\* one turn of while let Some(rewrite) = analysis.analyze_exit(..)
BackwardAnalyzeExit ==
    /\ pc = "exit"
    /\ BackwardVisit
    /\ LET r == BackwardProbeAnalyzeExit(block.exit, fact)
       IN /\ trace' = Record(trace, [cb |-> "exit", at |-> Len(block.code) + 1,
                                     item |-> block.exit, fact_in |-> fact,
                                     fact_out |-> r.fact, resp |-> r.rewrite])
          /\ fact' = r.fact
          /\ CASE r.rewrite.kind = "None" -> pc' = "rcode" /\ UNCHANGED block
               [] r.rewrite.kind = "Single" ->
                    /\ block' = [block EXCEPT !.exit = r.rewrite.exit]
                    /\ pc' = "exit"
               [] r.rewrite.kind = "Extend" ->
                    /\ block' = [block EXCEPT !.code = ExtendCode(@, r.rewrite.insts),
                                              !.exit = r.rewrite.exit]
                    /\ pc' = "exit"
               [] r.rewrite.kind = "Graph" -> pc' = Unimplemented /\ UNCHANGED block
    /\ UNCHANGED <<mode, analysis, graph, entry, entry_fact, fact_base, to_visit,
                   label, index, output, pending, analysed, rewritten>>

\* the instructions taken in the order of the block
BackwardIndexForward(len, counter) == counter

\* let index = block.code.len() - (counter + 1), a 0-based position
BackwardIndex(len, counter) == len - (counter + 1)

\* the counter moving on after every answer
BackwardCounterEager(kind, counter) == counter + 1

\* counter += 1 in the arm of no request only
BackwardCounter(kind, counter) == IF kind = "None" THEN counter + 1 ELSE counter

\* one turn of while counter < block.code.len(); index holds counter, the
\* instruction offered is the one at block.code.len() - (counter + 1), 0-based
BackwardAnalyzeInstruction ==
    /\ pc = "rcode"
    /\ BackwardVisit
    /\ index < Len(block.code)
    /\ LET index0 == BackwardIndex(Len(block.code), index)
           at == index0 + 1
           r == BackwardProbeAnalyzeInstruction(block.code[at], fact)
           sp == Splice(block.code, index0, index0 + 1, r.rewrite.insts)
       IN /\ trace' = Record(trace, [cb |-> "instruction", at |-> at,
                                     item |-> block.code[at], fact_in |-> fact,
                                     fact_out |-> r.fact, resp |-> r.rewrite])
          /\ fact' = r.fact
          /\ CASE r.rewrite.kind = "None" ->
                    /\ pc' = "rcode"
                    /\ index' = BackwardCounter(r.rewrite.kind, index)
                    /\ UNCHANGED block
               [] r.rewrite.kind = "Single" ->
                    /\ pc' = "rcode"
                    /\ block' = [block EXCEPT !.code[at] = r.rewrite.inst]
                    /\ index' = BackwardCounter(r.rewrite.kind, index)
               [] r.rewrite.kind = "Multiple" ->
                    /\ pc' = "rcode"
                    /\ block' = [block EXCEPT !.code = sp.code]
                    /\ index' = BackwardCounter(r.rewrite.kind, index)
               [] r.rewrite.kind = "Graph" ->
                    pc' = Unimplemented /\ UNCHANGED <<block, index>>
    /\ UNCHANGED <<mode, analysis, graph, entry, entry_fact, fact_base, to_visit,
                   label, output, pending, analysed, rewritten>>

\* analysis.analyze_entry(&graph, label, &block.entry, fact): the value the
\* block visit returns
BackwardAnalyzeEntry ==
    /\ pc = "rcode"
    /\ BackwardVisit
    /\ index >= Len(block.code)
    /\ output' = BackwardProbeAnalyzeEntry(graph, label, fact)
    /\ trace' = Record(trace, [cb |-> "entry", at |-> 0, item |-> block.entry,
                               fact_in |-> fact, fact_out |-> fact,
                               resp |-> NoRewrite])
    /\ rewritten' = MapInsert(rewritten, label, block)
    /\ IF mode = "fixed_point_backward_block"
       THEN pc' = "done" /\ UNCHANGED pending
       ELSE /\ pending' \in Orders(direct_predecessors(graph, label))
            /\ pc' = IF direct_predecessors(graph, label) = {} THEN "loop" ELSE "join"
    /\ UNCHANGED <<mode, analysis, graph, entry, entry_fact, fact_base, to_visit,
                   label, fact, block, index, analysed>>

\* the returned fact stored in place of the predecessor's fact
BackwardJoinedReplaced(a, fb, out, predecessor) ==
    [ok |-> TRUE, fact |-> out[predecessor], changed |-> TRUE]

\* let old_fact = fact_base.entry(predecessor).or_insert_with(F::bottom);
\* old_fact.join(&output_fact_base[&predecessor], predecessor)
BackwardJoined(a, fb, out, predecessor) ==
    Join(a, or_insert_with_bottom(a, fb, predecessor), out[predecessor])

\* one turn of for predecessor in graph.direct_predecessors(label)
BackwardJoinPredecessor ==
    /\ pc = "join"
    /\ BackwardGraphRun
    /\ LET predecessor == Head(pending)
           old_fact == or_insert_with_bottom(analysis, fact_base, predecessor)
       IN IF predecessor \notin DOMAIN output
          THEN \* output_fact_base[&predecessor]: no such key
               pc' = "panic_no_key" /\ UNCHANGED <<fact_base, to_visit, pending, trace>>
          ELSE LET j == BackwardJoined(analysis, fact_base, output, predecessor)
               IN IF ~j.ok
                  THEN pc' = "panic_join" /\ UNCHANGED <<fact_base, to_visit, pending, trace>>
                  ELSE /\ fact_base' = MapInsert(fact_base, predecessor, j.fact)
                       /\ to_visit' = Requeue(to_visit, predecessor, j.changed)
                       /\ pending' = Tail(pending)
                       /\ pc' = IF Tail(pending) = <<>> THEN "loop" ELSE "join"
                       /\ trace' = Record(trace,
                              [cb |-> "join", at |-> 0, item |-> predecessor,
                               fact_in |-> old_fact, fact_out |-> j.fact,
                               resp |-> [kind |-> "Join", changed |-> j.changed,
                                         was_pending |-> predecessor \in Range(to_visit),
                                         created |-> predecessor \notin DOMAIN fact_base]])
    /\ UNCHANGED <<mode, analysis, graph, entry, entry_fact, label, fact, block,
                   index, output, analysed, rewritten>>

\* Graph::post_order_traversal called on its own
\* an Option of the block graph: no element or one
NoneOf == <<>>
SomeOf(x) == <<x>>
IsSome(opt) == opt # <<>>
Unwrap(opt) == opt[1]

\* an implementation of the trait Instruction of the block graph: label()
\* and successors() of the instruction
OldInstruction(lab, succ) == [label |-> lab, successors |-> succ]

\* the successors taken from the first instruction
BlockNewFirstSuccessors(code) ==
    LET lab == IF code = <<>> THEN NoneOf ELSE code[1].label
        succ == IF code = <<>> THEN NoneOf ELSE code[1].successors
    IN IF ~IsSome(lab) THEN NoneOf
       ELSE IF ~IsSome(succ) THEN NoneOf
       ELSE SomeOf([label |-> Unwrap(lab), successors |-> Unwrap(succ), code |-> code])

\* Block::new: code.first().and_then(|i| i.label())?, then
\* code.last().and_then(|i| i.successors())?, then the block
BlockNew(code) ==
    LET lab == IF code = <<>> THEN NoneOf ELSE code[1].label
        succ == IF code = <<>> THEN NoneOf ELSE code[Len(code)].successors
    IN IF ~IsSome(lab) THEN NoneOf
       ELSE IF ~IsSome(succ) THEN NoneOf
       ELSE SomeOf([label |-> Unwrap(lab), successors |-> Unwrap(succ), code |-> code])

\* Block::new called on its own; graph holds the argument code
CallBlockNew ==
    /\ pc = "call"
    /\ mode = "Block::new"
    /\ output' = BlockNew(graph)
    /\ pc' = "done"
    /\ UNCHANGED <<mode, analysis, graph, entry, entry_fact, fact_base, to_visit, label,
                   fact, block, index, pending, trace, analysed, rewritten>>

CallPostOrderTraversal ==
    /\ pc = "call"
    /\ mode = "post_order_traversal"
    /\ LET t == post_order_traversal(graph, entry)
       IN IF t.ok THEN to_visit' = t.output /\ pc' = "done"
          ELSE to_visit' = <<>> /\ pc' = "panic_no_block"
    /\ UNCHANGED <<mode, analysis, graph, entry, entry_fact, fact_base, label, fact,
                   block, index, output, pending, trace, analysed, rewritten>>

\* Lattice::join called on its own: self.join(&other, label)
join ==
    /\ pc = "call"
    /\ mode = "join"
    /\ LET j == LatticeJoin(analysis, fact, entry_fact)
       IN /\ fact' = j.fact
          /\ pc' = IF j.ok THEN "done" ELSE "panic_join"
          /\ trace' = <<[cb |-> "join", at |-> 0, item |-> 0, fact_in |-> fact,
                         fact_out |-> j.fact,
                         resp |-> [kind |-> "Join", changed |-> j.changed,
                                   was_pending |-> FALSE]]>>
    /\ UNCHANGED <<mode, analysis, graph, entry, entry_fact, fact_base, to_visit,
                   label, block, index, output, pending, analysed, rewritten>>

-----------------------------------------------------------------------------
(* The runs explored: the graphs of the tests, every graph over the labels  *)
(* 1..NumLabels with a few code schemes, and blocks that make the probe     *)
(* client issue each request of the rewrite protocol.                       *)

\* dominator_test (src/main.rs): 1 -> 2; 2 -> 3 or 4; 3 -> 5; 4 -> 5; 5 -> 2
Diamond ==
    from_blocks(<<BasicBlock(1, <<>>, Jump(2)),
                  BasicBlock(2, <<>>, Cond(3, 4)),
                  BasicBlock(3, <<>>, Jump(5)),
                  BasicBlock(4, <<>>, Jump(5)),
                  BasicBlock(5, <<>>, Jump(2))>>)

\* constant_test (src/main.rs)
ThreeBlockLoop ==
    from_blocks(<<BasicBlock(0, <<Load(0, 0), Load(1, 1), Load(2, 5)>>, Jump(1)),
                  BasicBlock(1, <<Arith("Sub", 2, 2, 1)>>, Cond(2, 1)),
                  BasicBlock(2, <<>>, Ret)>>)

GenLabels == 1..NumLabels

GenExits == {Ret} \cup {Jump(l) : l \in GenLabels}
                  \cup {Cond(l1, l2) : l1 \in GenLabels, l2 \in GenLabels}

CodeSchemes == {"none", "loads", "fold", "bits"}

CodeScheme(k, l) ==
    CASE k = "none" -> <<>>
      [] k = "loads" -> <<Load(0, l)>>
      [] k = "fold" -> IF l = 1 THEN <<Load(0, 0), Load(1, 1)>>
                       ELSE <<Arith("Add", 0, 0, 1)>>
      [] k = "bits" -> IF l = 1 THEN <<Load(0, 6), Load(1, 3)>>
                       ELSE <<Arith("Sub", 2, 0, 1), Arith("And", 0, 2, 1),
                              Arith("Or", 1, 2, 0)>>

GenGraphs(k) ==
    {[l \in GenLabels |-> BasicBlock(l, CodeScheme(k, l), ex[l])] :
        ex \in [GenLabels -> GenExits]}

Run(m, a, g, e, f) == [mode |-> m, analysis |-> a, graph |-> g, entry |-> e, entry_fact |-> f]

DominatorRuns ==
    {Run("forward_analysis", "DominatorAnalysis", g, 1, DominatorBottom) :
        g \in {Diamond} \cup GenGraphs("none")}

ConstRuns ==
    {Run("forward_analysis", "ConstantPropagation", ThreeBlockLoop, 0, ConstBottom)}
    \cup {Run("forward_analysis", "ConstantPropagation", g, 1, ConstBottom) :
            g \in UNION {GenGraphs(k) : k \in CodeSchemes}}

\* a label no block of the generated graphs carries
ExternalLabel == NumLabels + 1

\* graphs in which an exit reachable from block 1 names the external label
DanglingExits ==
    GenExits \cup {Jump(ExternalLabel)}
             \cup {Cond(l, ExternalLabel) : l \in GenLabels}
             \cup {Cond(ExternalLabel, l) : l \in GenLabels}

DanglingGraphs(k) ==
    {g \in {[l \in GenLabels |-> BasicBlock(l, CodeScheme(k, l), ex[l])] :
                ex \in [GenLabels -> DanglingExits]} :
        ExternalLabel \in Reachable(g, 1)}

DanglingRuns ==
    {Run("forward_analysis", "DominatorAnalysis", g, 1, DominatorBottom) :
        g \in DanglingGraphs("none")}
    \cup {Run("forward_analysis", "ConstantPropagation", g, 1, ConstBottom) :
            g \in DanglingGraphs("loads")}

\* one block (label 1) per request of the protocol, followed by block 2
ProbeBlocks ==
    {BasicBlock(1, <<Macro(<<Load(0, 1)>>), Load(1, 2)>>, Jump(2)),
     BasicBlock(1, <<Load(1, 2), Macro(<<Load(0, 1)>>)>>, Jump(2)),
     BasicBlock(1, <<Macro(<<Load(0, 1), Load(1, 2)>>), Load(2, 3)>>, Jump(2)),
     BasicBlock(1, <<Load(2, 3), Macro(<<Load(0, 1), Load(1, 2)>>)>>, Jump(2)),
     BasicBlock(1, <<Macro(<<>>), Load(2, 3)>>, Jump(2)),
     BasicBlock(1, <<Load(0, 1), Call>>, Jump(2)),
     BasicBlock(1, <<Load(0, 1)>>, Alias(<<2>>, Jump(2))),
     BasicBlock(1, <<Load(0, 1)>>, Alias(<<2>>, Cond(2, 1))),
     BasicBlock(1, <<Load(0, 1)>>, Alias(<<2>>, Jump(1))),
     BasicBlock(1, <<Load(0, 1)>>, Thunk(<<2, 1>>, <<Arith("Add", 0, 0, 0), Load(1, 7)>>, Cond(2, 1))),
     BasicBlock(1, <<Load(2, 3), Macro(<<Load(0, 1), Load(1, 2)>>), Load(3, 4)>>,
                Thunk(<<2, 1>>, <<Load(1, 7), Load(0, 5)>>, Cond(2, 1))),
     BasicBlock(1, <<Load(0, 1)>>, TailCall)}

ProbeRuns ==
    {Run("forward_analysis", "RewriteProbe",
         from_blocks(<<b, BasicBlock(2, <<Load(0, 1)>>, x)>>), 1, ConstBottom) :
        b \in ProbeBlocks, x \in {Ret, Jump(1)}}

\* backward_analysis takes no entry fact; the client is not reached before
\* the first block visit starts
BackwardRuns ==
    {Run("backward_analysis", "UsedVariables", ThreeBlockLoop, 0, ConstBottom),
     Run("backward_analysis", "UsedVariables", Diamond, 1, ConstBottom)}
    \cup {Run("backward_analysis", "UsedVariables", g, 1, ConstBottom) :
            g \in GenGraphs("loads")}

\* fixed_point_backward_block on block 1 of the probe graphs, from a fact base
\* that holds a fact for label 1
BackwardBlockRuns ==
    {Run("fixed_point_backward_block", "BackwardProbe",
         from_blocks(<<b, BasicBlock(2, <<Load(0, 1)>>, x)>>), 1, f) :
        b \in ProbeBlocks, x \in {Ret, Jump(1)}, f \in {ConstBottom, ConstSet(ConstBottom, 0, 4)}}

\* a block that loops on itself and a block, not reachable from it, that
\* jumps to it
LoopWithTail ==
    from_blocks(<<BasicBlock(1, <<>>, Jump(1)), BasicBlock(2, <<>>, Jump(1))>>)

\* the generated graphs whose blocks end in Ret or Jump
JumpGraphs == {g \in GenGraphs("loads") : \A l \in DOMAIN g : g[l].exit.op # "Cond"}

\* the fact bases that hold the fact f for some of the blocks of g
SeededFactBases(g, f) == {[l \in S |-> f] : S \in SUBSET DOMAIN g}

\* fixed_point_backward_graph from a fact base that holds the fact entry_fact
\* for some of the blocks: the graphs of the tests, the generated graphs
\* without conditional exits, and the probe graphs
BackwardGraphRuns ==
    {Run("fixed_point_backward_graph", "BackwardProbe", g, e, f) :
        g \in JumpGraphs \cup {Diamond, LoopWithTail}, e \in {1},
        f \in {ConstBottom, ConstSet(ConstBottom, 0, 4)}}
    \cup {Run("fixed_point_backward_graph", "BackwardProbe", ThreeBlockLoop, 0, ConstBottom)}
    \cup {Run("fixed_point_backward_graph", "BackwardProbe",
              from_blocks(<<b, BasicBlock(2, <<Load(0, 1)>>, x)>>), 1, ConstBottom) :
            b \in ProbeBlocks, x \in {Ret, Jump(1)}}

\* the facts a join is called with: no path or a path of up to MaxPath labels;
\* a map from some of the variables to Top or a constant
MaxPath == 3

DominatorFacts ==
    {None} \cup {Some(p) : p \in UNION {[1..n -> GenLabels] : n \in 0..MaxPath}}

ConstVars == {0, 1}

ConstFacts ==
    UNION {[D -> {Top, Elem(0), Elem(1)}] : D \in SUBSET ConstVars}

JoinRun(lat, a, b) ==
    [mode |-> "join", analysis |-> lat, graph |-> EmptyMap, entry |-> 0,
     entry_fact |-> b, self |-> a]

JoinRuns ==
    {JoinRun(lat, a, b) : lat \in {"dataflow::DominatorFact", "pc::DominatorFact"},
                          a \in DominatorFacts, b \in DominatorFacts}
    \cup {JoinRun(lat, a, b) : lat \in {"ConstFact", "pc::ConstFact"},
                               a \in ConstFacts, b \in ConstFacts}

\* the graphs the traversal is called on: the graphs of the tests, and every
\* graph over the labels 1..MaxTravLabels whose exits name blocks of the graph
MaxTravLabels == 3

TravLabels == 1..MaxTravLabels

TravExits == {Ret} \cup {Jump(l) : l \in TravLabels}
                   \cup {Cond(p[1], p[2]) :
                             p \in {q \in TravLabels \X TravLabels : q[1] # q[2]}}

TravGraphs ==
    {[l \in TravLabels |-> BasicBlock(l, <<>>, ex[l])] : ex \in [TravLabels -> TravExits]}

\* the arguments of Block::new: up to MaxBlockCode instructions, each with or
\* without a label and with or without a list of successors
MaxBlockCode == 2
OldInstructions ==
    {OldInstruction(lab, succ) :
        lab \in {NoneOf, SomeOf(1), SomeOf(2)},
        succ \in {NoneOf, SomeOf(<<>>), SomeOf(<<1>>), SomeOf(<<2, 1>>)}}
BlockNewRuns ==
    {Run("Block::new", "none", code, 0, ConstBottom) :
        code \in UNION {[1..n -> OldInstructions] : n \in 0..MaxBlockCode}}

TraversalRuns ==
    {Run("post_order_traversal", "none", g, 1, ConstBottom) : g \in TravGraphs}
    \cup {Run("post_order_traversal", "none", Diamond, 1, ConstBottom),
          Run("post_order_traversal", "none", ThreeBlockLoop, 0, ConstBottom)}

\* the families of runs, one per entry point and client
Runs == <<TraversalRuns, JoinRuns, DominatorRuns, ConstRuns, ProbeRuns, BackwardRuns,
          DanglingRuns, BackwardBlockRuns, BackwardGraphRuns, BlockNewRuns>>

Init ==
    /\ \E i \in DOMAIN Runs : \E r \in Runs[i] :
         /\ mode = r.mode
         /\ analysis = r.analysis
         /\ graph = r.graph
         /\ entry = r.entry
         /\ entry_fact = r.entry_fact
         /\ fact = IF r.mode = "join" THEN r.self ELSE Bottom(r.analysis)
    /\ fact_base \in IF mode = "fixed_point_backward_block"
                     THEN {MapInsert(EmptyMap, entry, entry_fact)}
                     ELSE IF mode = "fixed_point_backward_graph"
                     THEN SeededFactBases(graph, entry_fact)
                     ELSE {EmptyMap}
    /\ to_visit = <<>>
    /\ pc = "call"
    /\ label = 0
    /\ block = NoBlock
    /\ index = 1
    /\ output = EmptyMap
    /\ pending = <<>>
    /\ trace = <<>>
    /\ analysed = EmptyMap
    /\ rewritten = EmptyMap

Next ==
    \/ forward_analysis
    \/ ForwardPop
    \/ ForwardAnalyzeEntry
    \/ ForwardAnalyzeInstruction
    \/ ForwardAnalyzeExit
    \/ ForwardJoinSuccessor
    \/ backward_analysis
    \/ BackwardPop
    \/ join
    \/ CallPostOrderTraversal
    \/ fixed_point_backward_block
    \/ BackwardAnalyzeExit
    \/ BackwardAnalyzeInstruction
    \/ BackwardAnalyzeEntry
    \/ fixed_point_backward_graph
    \/ CallBlockNew
    \/ BackwardJoinPredecessor

Spec == Init /\ [][Next]_vars

\* the engine is one thread that runs until it returns or aborts
FairSpec == Spec /\ WF_vars(Next)

-----------------------------------------------------------------------------
(* The per-instruction engine (src/pc): a graph is a list of regions, each  *)
(* a list of nodes; a label is a (region, offset) pair, both counted from 0. *)
(* The variables are used as follows: graph is the Graph, label the label    *)
(* handed to the operation (the engine's current pc in forward_analyze),     *)
(* fact_base the FactBase, to_visit the working set, output the value the    *)
(* operation returned.                                                      *)

\* Label::new
LabelNew(sub_graph, i) == [sub_graph |-> sub_graph, index |-> i]

ENTRY == LabelNew(0, 0)

LABEL_FORWARD_LIMIT == 10000

\* Node::Instruction and Node::SubGraph
Instruction(i) == [node |-> "Instruction", inst |-> i]
SubGraphNode(n) == [node |-> "SubGraph", sub_graph |-> n]

\* SubGraph::new
SubGraphNew(number, e, nodes) == [number |-> number, entry |-> e, nodes |-> nodes]

\* the labels of the nodes of a graph
Labels(g) ==
    UNION {{LabelNew(r - 1, i - 1) : i \in 1..Len(g[r].nodes)} : r \in 1..Len(g)}

\* the slice index of get_node is in bounds
InBounds(g, l) ==
    /\ l.sub_graph < Len(g)
    /\ l.index < Len(g[l.sub_graph + 1].nodes)

\* Graph::get_node, where InBounds
get_node(g, l) == g[l.sub_graph + 1].nodes[l.index + 1]

\* SubGraph::contains
SubGraphContains(sg, l) == sg.number = l.sub_graph /\ l.index < Len(sg.nodes)

\* Graph::node_exists, indexing sub_graphs with the label's region
node_exists(g, l) == SubGraphContains(g[l.sub_graph + 1], l)

\* Graph::backward_label
backward_label(g, l) == g[l.sub_graph + 1].entry

\* forward_label reporting every node as an instruction
forward_label_stop(g, l) ==
    IF ~InBounds(g, l) THEN [ok |-> FALSE, label |-> l, cont |-> FALSE]
    ELSE [ok |-> TRUE, label |-> l, cont |-> FALSE]

\* Graph::forward_label; ok is FALSE when get_node indexes out of bounds
forward_label(g, l) ==
    IF ~InBounds(g, l) THEN [ok |-> FALSE, label |-> l, cont |-> FALSE]
    ELSE LET n == get_node(g, l)
         IN IF n.node = "Instruction" THEN [ok |-> TRUE, label |-> l, cont |-> FALSE]
            ELSE [ok |-> TRUE, label |-> LabelNew(n.sub_graph, 0), cont |-> TRUE]

\* the value an operation of the graph returned, or the panic that ended it
Returns(l) == [end |-> "done", label |-> l]
Panics(p) == [end |-> p, label |-> ENTRY]

\* the state of the for loop of forward_label_completely: still running with
\* the label it holds, returned, or aborted
Running(l) == [end |-> "run", label |-> l]

\* one iteration of the for loop of forward_label_completely
forward_label_iteration(g, st) ==
    IF st.end # "run" THEN st
    ELSE LET r == forward_label(g, st.label)
         IN IF ~r.ok THEN Panics("panic_index")
            ELSE IF ~r.cont THEN Returns(r.label)
            ELSE Running(r.label)

\* the states the loop can be in when it starts at label l
LoopStates(g, l) ==
    LET ls == Labels(g) \cup {l} \cup {LabelNew(r - 1, 0) : r \in 1..Len(g)}
              \cup {LabelNew(get_node(g, m).sub_graph, 0) :
                        m \in {x \in Labels(g) : get_node(g, x).node = "SubGraph"}}
    IN {Running(x) : x \in ls} \cup {Returns(x) : x \in ls}
       \cup {Panics("panic_index")}

\* n iterations of a loop whose single iteration is F, by halving n; @@ <<>>
\* leaves a function as it is and has TLC hold it as a table
\* G after H, tabulated
After(G, H) == [x \in DOMAIN H |-> G[H[x]]] @@ <<>>

RECURSIVE Iterations(_, _)
Iterations(F, n) ==
    IF n = 0 THEN [x \in DOMAIN F |-> x]
    ELSE IF n % 2 = 0
         THEN CHOOSE HH \in {After(H, H) : H \in {Iterations(F, n \div 2)}} : TRUE
         ELSE CHOOSE FH \in {After(F, H) : H \in {Iterations(F, n - 1)}} : TRUE

\* Graph::forward_label_completely: LABEL_FORWARD_LIMIT iterations, then the
\* panic if the loop has not returned
forward_label_completely(g, l) ==
    LET F == [st \in LoopStates(g, l) |-> forward_label_iteration(g, st)]
        st == Iterations(F, LABEL_FORWARD_LIMIT)[Running(l)]
    IN IF st.end = "run" THEN Panics("panic_sub_graph_loop") ELSE st

\* Graph::next_pc: one iteration of the loop and the ones after it
RECURSIVE next_pc(_, _)
next_pc(g, l) ==
    LET f == forward_label_completely(g, [l EXCEPT !.index = @ + 1])
    IN IF f.end # "done" THEN f
       ELSE IF node_exists(g, f.label) THEN f
       ELSE IF f.label.sub_graph = 0 THEN Panics("panic_end_of_program")
       ELSE next_pc(g, backward_label(g, f.label))

\* Risc of src/pc/test.rs; Load and Ret are written as in the block language
Add(dst, src1, src2) == [op |-> "Add", dst |-> dst, src1 |-> src1, src2 |-> src2]
Lt(dst, src1, src2) == [op |-> "Lt", dst |-> dst, src1 |-> src1, src2 |-> src2]
Goto(l) == [op |-> "Goto", l |-> l]
JumpZ(src, l) == [op |-> "JumpZ", src |-> src, l |-> l]
NoOp == [op |-> "NoOp"]

\* an instruction of a client language that assigns two variables and jumps:
\* dst takes the value of src, src is incremented, control goes to l
Step(dst, src, l) == [op |-> "Step", dst |-> dst, src |-> src, l |-> l]

\* Successors: fallthrough(), conditional(jumps), halt(), goto(jumps)
Successors(fallthrough, jumps) == [fallthrough |-> fallthrough, jumps |-> jumps]

\* Instruction::successors for Risc
RiscSuccessors(i) ==
    IF i.op \in {"Goto", "Step"} THEN Successors(FALSE, <<i.l>>)
    ELSE IF i.op = "JumpZ" THEN Successors(TRUE, <<i.l>>)
    ELSE IF i.op = "Ret" THEN Successors(FALSE, <<>>)
    ELSE Successors(TRUE, <<>>)

\* Graph::new
GraphNew(code) ==
    <<SubGraphNew(0, ENTRY, [i \in 1..Len(code) |-> Instruction(code[i])])>>

\* F::bottom and F::top of the lattice of each client of the per-instruction
\* engine: top() is bottom() in ConstFact and in DominatorFact
PcBottom(a) == IF a = "pc::DominatorAnalysis" THEN None ELSE EmptyMap
PcTop(a) == PcBottom(a)

\* F::join of the lattice of each client of the per-instruction engine
PcJoin(a, self, other) ==
    IF a = "pc::DominatorAnalysis" THEN PcDominatorJoin(self, other)
    ELSE PcConstJoin(self, other)

\* FactBase::new: a bottom fact per node of every region
FactBaseNew(a, g) == [r \in 1..Len(g) |-> [i \in 1..Len(g[r].nodes) |-> PcBottom(a)]]

\* index_two on a slice of n items: the positions of the two items it borrows;
\* ok is FALSE when split_at_mut or a slice index is out of bounds. first_slice
\* is items[0..split_at_index], second_slice the rest.
index_two(n, first_index, second_index) ==
    LET split_at_index == IF first_index >= second_index THEN first_index
                          ELSE second_index
    IN IF split_at_index > n THEN [ok |-> FALSE, first |-> 0, second |-> 0]
       ELSE IF first_index < second_index
       THEN [ok |-> first_index < split_at_index /\ split_at_index < n,
             first |-> first_index, second |-> split_at_index]
       ELSE [ok |-> split_at_index < n /\ second_index < split_at_index,
             first |-> split_at_index, second |-> second_index]

NoPair == [end |-> "done", kind |-> "None", first |-> ENTRY, second |-> ENTRY]

\* the pair with the mutable slot at the second label
PairSwapped(a, b) == [end |-> "done", kind |-> "Some", first |-> b, second |-> a]

Pair(a, b) == [end |-> "done", kind |-> "Some", first |-> a, second |-> b]
PairPanics == [end |-> "panic_index", kind |-> "None", first |-> ENTRY, second |-> ENTRY]

\* FactBase::get_disjoint: None, the slots of the two facts it borrows, or the
\* panic of index_two
get_disjoint(facts, first, second) ==
    IF first.sub_graph >= Len(facts) \/ second.sub_graph >= Len(facts) THEN NoPair
    ELSE IF first.sub_graph = second.sub_graph
    THEN LET sub_graph_facts == facts[first.sub_graph + 1]
         IN IF \/ first.index >= Len(sub_graph_facts)
               \/ second.index >= Len(sub_graph_facts)
            THEN NoPair
            ELSE LET two == index_two(Len(sub_graph_facts), first.index, second.index)
                 IN IF ~two.ok THEN PairPanics
                    ELSE Pair(LabelNew(first.sub_graph, two.first),
                              LabelNew(first.sub_graph, two.second))
    ELSE LET two == index_two(Len(facts), first.sub_graph, second.sub_graph)
         IN IF ~two.ok THEN PairPanics
            ELSE IF \/ first.index >= Len(facts[two.first + 1])
                    \/ second.index >= Len(facts[two.second + 1])
                 THEN NoPair
                 ELSE Pair(LabelNew(two.first, first.index),
                           LabelNew(two.second, second.index))

\* FactBase::get_disjoint(first, second) called on its own: label holds first,
\* entry holds second
CallGetDisjoint ==
    /\ pc = "call"
    /\ mode = "get_disjoint"
    /\ output' = get_disjoint(fact_base, label, entry)
    /\ pc' = output'.end
    /\ UNCHANGED <<mode, analysis, graph, entry, entry_fact, fact_base, to_visit, label,
                   fact, block, index, pending, trace, analysed, rewritten>>

\* FactBase::get and get_mut, where the label is in range
FactAt(facts, l) == facts[l.sub_graph + 1][l.index + 1]

HasFact(facts, l) ==
    /\ l.sub_graph < Len(facts)
    /\ l.index < Len(facts[l.sub_graph + 1])

\* *fact_base.get_mut(l).unwrap() = f
SetFact(facts, l, f) == [facts EXCEPT ![l.sub_graph + 1][l.index + 1] = f]

\* Rewrite::NoChange, Rewrite::Fact, Rewrite::Single and Rewrite::Many
NoChange == [kind |-> "NoChange", fact |-> EmptyMap, instructions |-> <<>>]
RewriteFact(f) == [kind |-> "Fact", fact |-> f, instructions |-> <<>>]
RewriteSingle(i) == [kind |-> "Single", fact |-> EmptyMap, instructions |-> <<i>>]
RewriteMany(is) == [kind |-> "Many", fact |-> EmptyMap, instructions |-> is]

\* ConstFact::pair of src/pc/test.rs; a constant of None is Top
ConstPair(var, c) == MapInsert(EmptyMap, var, c)

\* ConstFact::lift
ConstLift(f, dst, src1, src2, op) ==
    IF src1 \in DOMAIN f /\ src2 \in DOMAIN f
    THEN IF ~f[src1].top /\ ~f[src2].top
         THEN ConstPair(dst, Elem(IF op = "Add" THEN f[src1].c + f[src2].c
                                  ELSE IF f[src1].c < f[src2].c THEN 1 ELSE 0))
         ELSE IF f[src1].top /\ f[src2].top THEN EmptyMap
         ELSE ConstPair(dst, Top)
    ELSE ConstPair(dst, Top)

\* ConstFact::merge
ConstMerge(self, other) ==
    [k \in DOMAIN self \cup DOMAIN other |-> IF k \in DOMAIN other THEN other[k] ELSE self[k]]

\* ConstAnalysis::analyze of src/pc/test.rs
ConstAnalysisAnalyze(instruction, f) ==
    IF instruction.op = "Load" THEN RewriteFact(ConstPair(instruction.dst, Elem(instruction.c)))
    ELSE IF instruction.op \in {"Add", "Lt"}
    THEN RewriteFact(ConstMerge(f, ConstLift(f, instruction.dst, instruction.src1,
                                             instruction.src2, instruction.op)))
    ELSE NoChange

\* DominatorAnalysis::analyze of src/pc/dominator.rs
PcDominatorAnalyze(l, f) == RewriteFact(Some((IF f.some THEN f.v ELSE <<>>) \o <<l>>))

\* the fact after a Step: dst holds what src held and src is one more, or Top
\* when it was Top
StepFact(f, dst, src) ==
    IF src \notin DOMAIN f THEN f
    ELSE ConstMerge(ConstMerge(f, ConstPair(dst, f[src])),
                    ConstPair(src, IF f[src].top THEN Top ELSE Elem(f[src].c + 1)))

\* Analysis::analyze of a client that gives each answer of Rewrite: it
\* answers a Step with the fact after it, folds an Add of two known
\* constants into a Load, deletes a NoOp and answers the rest as
\* ConstAnalysis does
PcProbeAnalyze(instruction, f) ==
    IF instruction.op = "Step"
    THEN RewriteFact(StepFact(f, instruction.dst, instruction.src))
    ELSE IF instruction.op = "NoOp" THEN RewriteMany(<<>>)
    ELSE IF /\ instruction.op = "Add"
            /\ ConstLift(f, instruction.dst, instruction.src1, instruction.src2, "Add") # EmptyMap
            /\ ~ConstLift(f, instruction.dst, instruction.src1, instruction.src2,
                          "Add")[instruction.dst].top
    THEN RewriteSingle(Load(instruction.dst,
                            ConstLift(f, instruction.dst, instruction.src1,
                                      instruction.src2, "Add")[instruction.dst].c))
    ELSE ConstAnalysisAnalyze(instruction, f)

\* analysis.analyze(graph, pc, &instruction, &current_fact)
PcAnalyze(a, l, instruction, f) ==
    IF a = "pc::DominatorAnalysis" THEN PcDominatorAnalyze(l, f)
    ELSE IF a = "PcProbe" THEN PcProbeAnalyze(instruction, f)
    ELSE ConstAnalysisAnalyze(instruction, f)

\* Graph::get_instruction
get_instruction(g, l) ==
    LET f == forward_label_completely(g, l)
    IN IF f.end # "done" THEN [end |-> f.end, inst |-> NoOp]
       ELSE [end |-> "done", inst |-> get_node(g, f.label).inst]

\* the state of one iteration of the 'path loop of forward_analyze
PathState(end, facts, ws, l) == [end |-> end, fact_base |-> facts, working_set |-> ws, pc |-> l]

\* the state after a join j into the fact at the label first, for the
\* successor of a jump: the successor enters the working set when the fact
\* changed and it is not the current pc
JoinedInto(st, successor, first, j) ==
    IF ~j.ok THEN [st EXCEPT !.end = "panic_index"]
    ELSE [st EXCEPT !.fact_base = SetFact(@, first, j.fact),
                    !.working_set = IF j.changed /\ successor # st.pc
                                    THEN @ \cup {successor} ELSE @]

\* one turn of the for loop over successors.jumps of the NoChange arm: the
\* join of the fact at pc into the fact at the successor, two being
\* get_disjoint(successor, pc)
NoChangeJoin(st, successor, two) ==
    IF two.end # "done" THEN [st EXCEPT !.end = two.end]
    ELSE IF two.kind = "None" THEN [st EXCEPT !.end = "panic_unwrap"]
    ELSE JoinedInto(st, successor, two.first,
                    PcJoin(analysis, FactAt(st.fact_base, two.first),
                           FactAt(st.fact_base, two.second)))

\* the for loop over successors.jumps of the NoChange arm, from jump i on
RECURSIVE no_change_jumps(_, _, _)
no_change_jumps(st, jumps, i) ==
    IF i > Len(jumps) \/ st.end # "ok" THEN st
    ELSE no_change_jumps(
             NoChangeJoin(st, jumps[i], get_disjoint(st.fact_base, jumps[i], st.pc)),
             jumps, i + 1)

\* the for loop over successors.jumps of the Fact arm, from jump i on
RECURSIVE fact_jumps(_, _, _, _)
fact_jumps(st, new_fact, jumps, i) ==
    IF i > Len(jumps) \/ st.end # "ok" THEN st
    ELSE IF ~HasFact(st.fact_base, jumps[i]) THEN [st EXCEPT !.end = "panic_unwrap"]
    ELSE fact_jumps(
             JoinedInto(st, jumps[i], jumps[i],
                        PcJoin(analysis, FactAt(st.fact_base, jumps[i]), new_fact)),
             new_fact, jumps, i + 1)

\* the end of an iteration of the 'path loop: need_new_pc breaks the loop
PathEnd(st, need_new_pc) ==
    IF st.end = "ok" /\ need_new_pc THEN [st EXCEPT !.end = "break"] ELSE st

\* the join into the fallthrough and then the for loop over the jumps, r being
\* the answer of the analysis and j the join of the fact handed on into the
\* fact at the fallthrough
PathJumps(facts, ws, l, fallthrough, succs, two, r, j) ==
    IF succs.fallthrough /\ ~j.ok THEN PathState("panic_index", facts, ws, l)
    ELSE
    PathEnd(IF r.kind = "NoChange"
            THEN no_change_jumps(
                     PathState("ok",
                               IF succs.fallthrough THEN SetFact(facts, two.first, j.fact)
                               ELSE facts,
                               ws,
                               IF succs.fallthrough /\ j.changed THEN fallthrough ELSE l),
                     succs.jumps, 1)
            ELSE fact_jumps(
                     PathState("ok",
                               IF succs.fallthrough THEN SetFact(facts, two.first, j.fact)
                               ELSE facts,
                               ws,
                               IF succs.fallthrough /\ j.changed THEN fallthrough ELSE l),
                     r.fact, succs.jumps, 1),
            ~succs.fallthrough \/ ~j.changed)

\* Rewrite::Single(..) => panic!("not implemented yet") and the same for
\* Rewrite::Many: are the two arms unimplemented
NotImplementedProcessed(kind) == FALSE

NotImplemented(kind) == kind \in {"Single", "Many"}

\* match analysis.analyze(instruction, fact): the fact handed on is the fact at
\* pc when the analysis answers NoChange, else the fact of the answer; the
\* arms Single and Many panic
PathAnalyze(facts, ws, l, fallthrough, succs, two, r) ==
    IF NotImplemented(r.kind) THEN PathState("panic_not_implemented", facts, ws, l)
    ELSE
    PathJumps(facts, ws, l, fallthrough, succs, two, r,
              PcJoin(analysis, FactAt(facts, two.first),
                     IF r.kind = "NoChange" THEN FactAt(facts, two.second) ELSE r.fact))

\* an iteration of the 'path loop once the instruction, the fallthrough label
\* and the pair of facts are at hand
PathFetched(facts, ws, l, instruction, fallthrough_pc, two) ==
    IF instruction.end # "done" THEN PathState(instruction.end, facts, ws, l)
    ELSE IF fallthrough_pc.end # "done" THEN PathState(fallthrough_pc.end, facts, ws, l)
    ELSE IF two.end # "done" THEN PathState(two.end, facts, ws, l)
    ELSE IF two.kind = "None" THEN PathState("panic_unwrap", facts, ws, l)
    ELSE PathAnalyze(facts, ws, l, fallthrough_pc.label, RiscSuccessors(instruction.inst), two,
                     PcAnalyze(analysis, l, instruction.inst, FactAt(facts, two.second)))

\* fact_base.get_disjoint(fallthrough_pc, pc), reached when next_pc returned
PathDisjoint(facts, ws, l, instruction, fallthrough_pc) ==
    PathFetched(facts, ws, l, instruction, fallthrough_pc,
                get_disjoint(facts, fallthrough_pc.label, l))

\* one iteration of the 'path loop of forward_analyze at label l; end is
\* "ok" when the loop goes on at the label of the result, "break" when it
\* breaks, else the panic
path_iteration(g, facts, working_set, l) ==
    PathDisjoint(facts, working_set \ {l}, l, get_instruction(g, l), next_pc(g, l))

\* forward_analyze up to the while loop
forward_analyze ==
    /\ pc = "call"
    /\ mode = "forward_analyze"
    /\ IF HasFact(FactBaseNew(analysis, graph), ENTRY)
       THEN /\ fact_base' = SetFact(FactBaseNew(analysis, graph), ENTRY, PcTop(analysis))
            /\ to_visit' = {ENTRY}
            /\ pc' = "while"
       ELSE /\ pc' = "panic_unwrap"
            /\ UNCHANGED <<fact_base, to_visit>>
    /\ label' = ENTRY
    /\ UNCHANGED <<mode, analysis, graph, entry, entry_fact, fact, block, index, output,
                   pending, trace, analysed, rewritten>>

\* while let Some(new_pc) = working_set.iter().next(): any label of the set,
\* the order of a hash set; the function returns when the set is empty
PcWhile ==
    /\ pc = "while"
    /\ IF to_visit = {}
       THEN pc' = "done" /\ output' = fact_base /\ UNCHANGED label
       ELSE /\ \E new_pc \in to_visit : label' = new_pc
            /\ pc' = "path"
            /\ UNCHANGED output
    /\ UNCHANGED <<mode, analysis, graph, entry, entry_fact, fact_base, to_visit, fact,
                   block, index, pending, trace, analysed, rewritten>>

\* the variables after an iteration of the 'path loop that ended in st
PathDone(st) ==
    /\ fact_base' = st.fact_base
    /\ to_visit' = st.working_set
    /\ label' = st.pc
    /\ pc' = IF st.end = "ok" THEN "path"
             ELSE IF st.end = "break" THEN "while" ELSE st.end

\* one iteration of the 'path loop
PcPath ==
    /\ pc = "path"
    /\ PathDone(path_iteration(graph, fact_base, to_visit, label))
    /\ trace' = Record(trace, label)
    /\ UNCHANGED <<mode, analysis, graph, entry, entry_fact, fact, block, index, output,
                   pending, analysed, rewritten>>

\* Graph::next_pc called on its own
CallNextPc ==
    /\ pc = "call"
    /\ mode = "next_pc"
    /\ output' = next_pc(graph, label)
    /\ pc' = output'.end
    /\ UNCHANGED <<mode, analysis, graph, entry, entry_fact, fact_base, to_visit, label,
                   fact, block, index, pending, trace, analysed, rewritten>>

\* Graph::forward_label_completely called on its own
CallForwardLabelCompletely ==
    /\ pc = "call"
    /\ mode = "forward_label_completely"
    /\ output' = forward_label_completely(graph, label)
    /\ pc' = output'.end
    /\ UNCHANGED <<mode, analysis, graph, entry, entry_fact, fact_base, to_visit, label,
                   fact, block, index, pending, trace, analysed, rewritten>>

\* Nested graphs: up to MaxRegions regions of one or two nodes, each node an
\* instruction or a marker naming a region of the graph. A region other than
\* the root was put in place of an instruction, so some marker names it, and
\* the label of the first such marker is its entry.
MaxRegions == 2

RegionLens == {1, 2}

NodeKinds(n) == {Instruction(NoOp)} \cup {SubGraphNode(r) : r \in 0..(n - 1)}

RegionNodes(n) == UNION {[1..k -> NodeKinds(n)] : k \in RegionLens}

\* the labels of the markers naming region r, nodes[k] the nodes of region k-1
Markers(nodes, r) ==
    {l \in UNION {{LabelNew(k - 1, i - 1) : i \in 1..Len(nodes[k])} : k \in DOMAIN nodes} :
        nodes[l.sub_graph + 1][l.index + 1] = SubGraphNode(r)}

FirstMarker(nodes, r) ==
    CHOOSE l \in Markers(nodes, r) :
        \A m \in Markers(nodes, r) :
            \/ l.sub_graph < m.sub_graph
            \/ l.sub_graph = m.sub_graph /\ l.index <= m.index

NestedGraph(nodes) ==
    [k \in DOMAIN nodes |->
        SubGraphNew(k - 1, IF k = 1 THEN ENTRY ELSE FirstMarker(nodes, k - 1), nodes[k])]

NestedGraphsOf(n) ==
    {NestedGraph(nodes) :
        nodes \in {ns \in [1..n -> RegionNodes(n)] :
                      \A r \in 1..(n - 1) : Markers(ns, r) # {}}}

\* a chain of two markers: the root's second node is region 1, whose first
\* node is region 2
NestedChain ==
    <<SubGraphNew(0, ENTRY, <<Instruction(NoOp), SubGraphNode(1), Instruction(Ret)>>),
      SubGraphNew(1, LabelNew(0, 1), <<SubGraphNode(2), Instruction(NoOp)>>),
      SubGraphNew(2, LabelNew(1, 0), <<Instruction(NoOp), Instruction(NoOp)>>)>>

\* a chain of n - 1 markers: the root's second node is region 1, and the
\* first node of each region but the last is the next region
NestedChainOf(n) ==
    NestedGraph([k \in 1..n |->
                    IF k = 1 THEN <<Instruction(NoOp), SubGraphNode(1), Instruction(Ret)>>
                    ELSE IF k < n THEN <<SubGraphNode(k), Instruction(NoOp)>>
                    ELSE <<Instruction(NoOp), Instruction(NoOp)>>])

\* every graph of one or two regions, and the chains of up to MaxRegions
\* markers
NestedGraphs ==
    UNION {NestedGraphsOf(n) : n \in {1, 2}}
    \cup {NestedChainOf(n + 1) : n \in 2..MaxRegions}

PcRun(m, g, fb, l, second) ==
    [mode |-> m, graph |-> g, fact_base |-> fb, label |-> l, second |-> second]

\* next_pc is handed the label of an instruction
NextPcRuns ==
    UNION {{PcRun("next_pc", g, <<>>, l, ENTRY) :
                l \in {x \in Labels(g) : get_node(g, x).node = "Instruction"}} :
           g \in NestedGraphs}

ForwardLabelRuns ==
    UNION {{PcRun("forward_label_completely", g, <<>>, l, ENTRY) : l \in Labels(g)} :
           g \in NestedGraphs}

\* the labels handed to get_disjoint: in and out of the range of the fact base
DisjointLabels == {LabelNew(r, i) : r \in 0..MaxRegions, i \in {0} \cup RegionLens}

\* the fact bases get_disjoint is called on: a bottom fact per node
FactBases ==
    UNION {{[r \in 1..n |-> [i \in 1..lens[r] |-> EmptyMap]] : lens \in [1..n -> RegionLens]} :
           n \in 1..MaxRegions}

GetDisjointRuns ==
    {PcRun("get_disjoint", <<>>, fb, a, b) :
        fb \in FactBases, a \in DisjointLabels, b \in DisjointLabels}

\* the program of the test constant_prop of src/pc/test.rs
ConstantPropCode ==
    <<Load(0, 0), Load(1, 1), Load(2, 10), Lt(3, 0, 2), JumpZ(3, LabelNew(0, 8)),
      Add(4, 1, 1), Add(0, 0, 4), Goto(LabelNew(0, 3)), Ret>>

\* Programs of up to MaxCode instructions whose jumps name instructions of
\* the program
MaxCode == 3

RiscKinds(n) ==
    {NoOp, Ret, Load(0, 1), Add(0, 0, 0)}
    \cup {Goto(LabelNew(0, i)) : i \in 0..(n - 1)}
    \cup {JumpZ(0, LabelNew(0, i)) : i \in 0..(n - 1)}

Programs == UNION {[1..n -> RiscKinds(n)] : n \in 1..MaxCode}

\* a program in which the fallthrough of the conditional jump at L0.1 is
\* also reached by the jump at L0.3, with a fact about another variable
LeakCode ==
    <<Load(0, 1), JumpZ(0, LabelNew(0, 0)), Load(1, 1), JumpZ(0, LabelNew(0, 2)),
      Load(0, 2), Goto(LabelNew(0, 1)), NoOp>>

\* programs for the client that gives each answer of Rewrite: a Step that
\* jumps to itself, an Add of known constants, a NoOp
StepLoopCode == <<Load(0, 1), Step(1, 0, LabelNew(0, 1)), Ret>>
PcProbeCodes ==
    {StepLoopCode, <<Load(0, 1), Add(1, 0, 0), Ret>>, <<Load(0, 1), NoOp, Ret>>}

\* the clients a program is analysed with
PcClients(g) ==
    IF \E code \in PcProbeCodes : g = GraphNew(code) THEN {"PcProbe"}
    ELSE {"ConstAnalysis", "pc::DominatorAnalysis"}

ForwardAnalyzeRuns ==
    {PcRun("forward_analyze", GraphNew(code), <<>>, ENTRY, ENTRY) :
        code \in Programs \cup {ConstantPropCode, LeakCode} \cup PcProbeCodes}

PcRuns == <<NextPcRuns, ForwardLabelRuns, GetDisjointRuns, ForwardAnalyzeRuns>>

PcInit ==
    /\ \E i \in DOMAIN PcRuns : \E r \in PcRuns[i] :
         /\ mode = r.mode
         /\ graph = r.graph
         /\ label = r.label
         /\ entry = r.second
         /\ fact_base = r.fact_base
    /\ analysis \in IF mode = "forward_analyze" THEN PcClients(graph) ELSE {"none"}
    /\ entry_fact = EmptyMap
    /\ to_visit = {}
    /\ pc = "call"
    /\ fact = EmptyMap
    /\ block = NoBlock
    /\ index = 0
    /\ output = Returns(ENTRY)
    /\ pending = <<>>
    /\ trace = <<>>
    /\ analysed = EmptyMap
    /\ rewritten = EmptyMap

PcNext ==
    \/ CallNextPc
    \/ CallForwardLabelCompletely
    \/ CallGetDisjoint
    \/ forward_analyze
    \/ PcWhile
    \/ PcPath

PcSpec == PcInit /\ [][PcNext]_vars

Returned == pc = "done"

PanicStates == {"panic_no_block", "panic_no_fact", "panic_client", "panic_splice",
                "panic_unimplemented", "panic_no_key", "panic_join"}
Aborted == pc \in PanicStates

ForwardRun == mode = "forward_analysis"
BackwardRun == mode = "backward_analysis"

\* the runs of the two tests of src/main.rs
DiamondRun == ForwardRun /\ analysis = "DominatorAnalysis" /\ graph = Diamond
LoopRun == ForwardRun /\ analysis = "ConstantPropagation" /\ graph = ThreeBlockLoop

-----------------------------------------------------------------------------
(* Properties                                                               *)

NoDuplicates(seq) == \A i, j \in 1..Len(seq) : i # j => seq[i] # seq[j]

Last(seq) == seq[Len(seq)]

\* the engine is about to call the client again after a rewrite request
RequestPending ==
    /\ pc = "code"
    /\ trace # <<>>
    /\ Last(trace).resp.kind \in {"Single", "Multiple", "Extend"}

\* every successor label reachable from the entry has a block
SuccessorsExist == Reachable(graph, entry) \subseteq DOMAIN graph

\* C1: for a client with a finite lattice and an honest join whose callbacks
\* eventually stop requesting rewrites, forward_analysis eventually returns
\* on every graph whose successor labels all exist.
\* The lattices of the clients are finite and their joins honest; a client
\* that asks for a sub-graph, or whose Done map misses a successor, has left
\* the part of the protocol the engine implements and is not counted.
C1_ForwardReturns ==
    (ForwardRun /\ SuccessorsExist) =>
        \/ []<>RequestPending
        \/ <>(Returned \/ pc \in {"panic_unimplemented", "panic_no_key"})

\* C2: when forward_analysis returns the fact base is a fixed point: for every
\* reachable label l and successor s, joining what l's block produces for s from
\* the final fact of l into the final fact of s reports no change.
C2_FixedPoint ==
    (ForwardRun /\ Returned) =>
        \A l \in Reachable(graph, entry) \cap DOMAIN graph :
            /\ l \in DOMAIN fact_base
            /\ LET out == fixed_point_forward_block(analysis, graph, l, fact_base)
               IN /\ out.ok
                  /\ \A s \in Range(BlockSuccessors(graph[l])) :
                        /\ s \in DOMAIN out.facts
                        /\ s \in DOMAIN fact_base
                        /\ Join(analysis, fact_base[s], out.facts[s]).ok
                        /\ ~Join(analysis, fact_base[s], out.facts[s]).changed

\* a returned run over a cyclic graph in which a re-join raised a fact to Top
C2_Witness ==
    /\ LoopRun
    /\ Returned
    /\ fact_base[1][2] = Top

\* C3: when forward_analysis returns, the fact base holds a fact for the entry
\* label and for every label reachable from it.
C3_CoversReachable ==
    (ForwardRun /\ Returned) =>
        /\ entry \in DOMAIN fact_base
        /\ Reachable(graph, entry) \subseteq DOMAIN fact_base

C3_Witness ==
    /\ DiamondRun
    /\ Returned
    /\ Reachable(graph, entry) = 1..5
    /\ DOMAIN fact_base = 1..5

\* C4: backward_analysis, called with a graph and an entry label only, runs to
\* completion: a label with no fact yet is analysed from bottom, not a failure.
C4_BackwardCompletes == BackwardRun => ~Aborted

\* C5: after a Single answer at position i the engine offers the replacement at
\* position i, with the fact as it stands, before advancing; the fact passed on
\* reflects the replacement's transfer (a folded Load makes its destination a
\* known constant).
C5_ReplacementOffered ==
    ForwardRun =>
        \A k \in 1..Len(trace) :
            (trace[k].cb = "instruction" /\ trace[k].resp.kind = "Single") =>
                LET inst == trace[k].resp.inst
                IN IF k < Len(trace)
                   THEN /\ trace[k + 1].cb = "instruction"
                        /\ trace[k + 1].at = trace[k].at
                        /\ trace[k + 1].item = inst
                        /\ trace[k + 1].fact_in = trace[k].fact_out
                        /\ inst.op = "Load" =>
                              /\ trace[k + 1].fact_out[inst.dst] = Elem(inst.c)
                              /\ k + 2 <= Len(trace) /\ trace[k + 2].cb # "join" =>
                                    /\ trace[k + 2].fact_in = trace[k + 1].fact_out
                                    /\ trace[k + 2].fact_in[inst.dst] = Elem(inst.c)
                   ELSE \/ Len(trace) = MaxTrace
                        \/ pc = "panic_client"
                        \/ /\ pc = "code"
                           /\ index = trace[k].at
                           /\ block.code[index] = inst
                           /\ fact = trace[k].fact_out

\* a folded Arith was replaced by a Load, the Load was analysed and the exit got
\* the fact with the folded constant
C5_Witness ==
    /\ ForwardRun
    /\ \E k \in 1..Len(trace) :
          /\ trace[k].cb = "instruction"
          /\ trace[k].item.op = "Arith"
          /\ trace[k].resp.kind = "Single"
          /\ k + 2 <= Len(trace)
          /\ trace[k + 1].item = trace[k].resp.inst
          /\ trace[k + 2].cb = "exit"
          /\ trace[k + 2].fact_in[trace[k].item.dst] = Elem(trace[k].resp.inst.c)

\* C6 as stated: when a label is visited again, the client is offered the block
\* as the earlier visit's rewrites left it.
C6_RewrittenBlockOffered ==
    (ForwardRun /\ pc = "entry" /\ label \in DOMAIN rewritten) => block = rewritten[label]

\* C6, amended: a rewrite is made in the visit's own clone of the block; the
\* graph never changes, and every visit starts from the graph's block, so a later
\* visit of the label is offered the original instructions and exit again.
C6_RewriteInVisitClone ==
    [][/\ graph' = graph
       /\ (ForwardRun /\ pc' = "entry") => block' = graph'[label']]_vars

\* a label is visited again after a visit that rewrote its block
C6_Witness ==
    /\ ForwardRun
    /\ pc = "entry"
    /\ label \in DOMAIN rewritten
    /\ rewritten[label] # graph[label]
    /\ block = graph[label]

\* C7 as stated: on the diamond the paths are [1, 2] for block 5, [1, 2, 3] for
\* block 3 and [1, 2] for block 2.
C7_DiamondAsStated ==
    (DiamondRun /\ Returned) =>
        /\ fact_base[5] = Some(<<1, 2>>)
        /\ fact_base[3] = Some(<<1, 2, 3>>)
        /\ fact_base[2] = Some(<<1, 2>>)

\* C7, amended: the run returns with the paths [1, 2] for block 5, [1, 2] for
\* block 3 and [1] for block 2: the stored fact of a block is the path that
\* reaches it, without the block's own label.
C7_DiamondDominators ==
    DiamondRun =>
        /\ ~Aborted
        /\ Returned =>
              /\ fact_base[5] = Some(<<1, 2>>)
              /\ fact_base[3] = Some(<<1, 2>>)
              /\ fact_base[2] = Some(<<1>>)

C7_Witness ==
    /\ DiamondRun
    /\ Returned
    /\ entry = 1
    /\ entry_fact = DominatorBottom
    /\ fact_base[4] = Some(<<1, 2>>)

KnownConstants(f) == 0 \in DOMAIN f /\ 1 \in DOMAIN f /\ f[0] = Elem(0) /\ f[1] = Elem(1)

\* C8 as stated: on the three-block loop the fact of block 1 has v2 = Top,
\* v0 = 0, v1 = 1, and v0, v1 are the constants 0, 1 in the fact of every label.
C8_LoopAsStated ==
    (LoopRun /\ Returned) =>
        /\ fact_base[1] = MapInsert(MapInsert(MapInsert(EmptyMap, 0, Elem(0)), 1, Elem(1)), 2, Top)
        /\ \A l \in DOMAIN fact_base : KnownConstants(fact_base[l])

\* C8, amended: the run returns; the fact of block 1 has v2 = Top, v0 = 0,
\* v1 = 1; v0, v1 are the constants 0, 1 in the fact of every label but the
\* entry label 0, whose fact is the bottom entry fact the caller supplied.
C8_LoopConstants ==
    LoopRun =>
        /\ ~Aborted
        /\ Returned =>
              /\ DOMAIN fact_base = {0, 1, 2}
              /\ fact_base[1] = MapInsert(MapInsert(MapInsert(EmptyMap, 0, Elem(0)), 1, Elem(1)), 2, Top)
              /\ \A l \in DOMAIN fact_base \ {entry} : KnownConstants(fact_base[l])
              /\ fact_base[entry] = ConstBottom

C8_Witness ==
    /\ LoopRun
    /\ Returned
    /\ entry = 0
    /\ entry_fact = ConstBottom
    /\ KnownConstants(fact_base[2])

\* C9: when a join into a successor's fact reports a change the successor is
\* pending right afterwards, and it has been analysed with the changed fact when
\* the run returns; when the join reports no change the worklist is untouched.
C9_ChangedSuccessorRequeued ==
    [][ForwardRun =>
        /\ (pc = "join" /\ ~Aborted') =>
              LET s == Head(pending)
                  j == Join(analysis, or_insert_with_bottom(analysis, fact_base, s), output[s])
              IN /\ j.changed => s \in Range(to_visit')
                 /\ ~j.changed => to_visit' = to_visit
        /\ Returned' =>
              \A l \in DOMAIN fact_base' \cap DOMAIN graph' :
                  l \in DOMAIN analysed' /\ analysed'[l] = fact_base'[l]]_vars

\* a label that was analysed before has just been pushed again, its fact changed
C9_Witness ==
    /\ ForwardRun
    /\ trace # <<>>
    /\ Last(trace).cb = "join"
    /\ Last(trace).resp.changed
    /\ ~Last(trace).resp.was_pending
    /\ to_visit # <<>>
    /\ Last(to_visit) = Last(trace).item
    /\ Last(trace).item \in DOMAIN analysed
    /\ analysed[Last(trace).item] # fact_base[Last(trace).item]

\* C10: the worklist of a forward or backward run never holds a label twice.
C10_WorklistNoDuplicates == NoDuplicates(to_visit)

\* a join changed the fact of a label that was already pending
C10_Witness ==
    /\ trace # <<>>
    /\ Last(trace).cb = "join"
    /\ Last(trace).resp.changed
    /\ Last(trace).resp.was_pending
    /\ Last(trace).item \in Range(to_visit)
    /\ Len(to_visit) >= 2

\* the order of each lattice: a is below b
DominatorLeq(a, b) ==
    \/ ~a.some
    \/ a.some /\ b.some /\ Len(b.v) <= Len(a.v) /\ SubSeq(a.v, 1, Len(b.v)) = b.v

ConstLeq(a, b) ==
    \A k \in DOMAIN a : k \in DOMAIN b /\ (b[k] = Top \/ b[k] = a[k])

Leq(a, x, y) == IF a = "DominatorAnalysis" THEN DominatorLeq(x, y) ELSE ConstLeq(x, y)

\* C11: during a forward run the fact base only grows: a label once present
\* stays, a stored fact is only replaced by the join of a newly produced fact
\* into it, and every stored fact only moves up the lattice.
C11_FactBaseGrows ==
    [][(ForwardRun /\ pc # "call") =>
        /\ DOMAIN fact_base \subseteq DOMAIN fact_base'
        /\ \A l \in DOMAIN fact_base : Leq(analysis, fact_base[l], fact_base'[l])
        /\ \A l \in DOMAIN fact_base' :
              (l \notin DOMAIN fact_base \/ fact_base'[l] # fact_base[l]) =>
                  /\ pc = "join"
                  /\ l = Head(pending)
                  /\ LET old == IF l \in DOMAIN fact_base THEN fact_base[l]
                                ELSE Bottom(analysis)
                     IN /\ fact_base'[l] = Join(analysis, old, output[l]).fact
                        /\ Leq(analysis, old, fact_base'[l])]_vars

\* a stored fact has just been raised by a join: a dominator path truncated,
\* or a constant raised to Top
C11_Witness ==
    /\ ForwardRun
    /\ trace # <<>>
    /\ Last(trace).cb = "join"
    /\ Last(trace).resp.changed
    /\ Last(trace).item \in DOMAIN analysed
    /\ Last(trace).fact_in # Bottom(analysis)
    /\ fact_base[Last(trace).item] = Last(trace).fact_out
    /\ Last(trace).fact_out # Last(trace).fact_in

\* C12: forward_analysis on a graph in which a reachable exit names a label
\* that has no block runs to completion: the external label is skipped and the
\* run does not abort.
C12_ExternalLabelSkipped == (ForwardRun /\ ~SuccessorsExist) => ~Aborted

\* the callback about to be made answers with a sub-graph request
GraphRequested ==
    \/ /\ ForwardRun
       /\ pc = "code"
       /\ IF index <= Len(block.code)
          THEN analyze_instruction(analysis, block.code[index], fact).rewrite.kind = "Graph"
          ELSE analyze_exit(analysis, block.exit, fact).kind = "Graph"
    \/ /\ BackwardVisit
       /\ pc = "exit"
       /\ BackwardProbeAnalyzeExit(block.exit, fact).rewrite.kind = "Graph"
    \/ /\ BackwardVisit
       /\ pc = "rcode"
       /\ index < Len(block.code)
       /\ BackwardProbeAnalyzeInstruction(block.code[Len(block.code) - index],
                                          fact).rewrite.kind = "Graph"

\* C13: a sub-graph request, for an instruction or an exit, in the forward or
\* the backward engine, aborts the run at that request; the aborted run takes
\* no further step, so no fact base is returned.
C13_SubGraphRequestAborts ==
    [][/\ GraphRequested => pc' = "panic_unimplemented"
       /\ pc # "panic_unimplemented"]_vars

\* a backward visit aborted at an instruction's sub-graph request, after the
\* exit had been analysed
C13_Witness ==
    /\ mode = "fixed_point_backward_block"
    /\ pc = "panic_unimplemented"
    /\ Len(trace) >= 2
    /\ Last(trace).cb = "instruction"
    /\ Last(trace).resp.kind = "Graph"

\* C14: in the forward engine a replace_many request with k instructions at
\* position i replaces exactly the instruction at position i by them: the
\* instructions before and after are kept, the length becomes len - 1 + k, and
\* the run does not abort.
C14_ReplaceManySplices ==
    [][(/\ ForwardRun
        /\ pc = "code"
        /\ index <= Len(block.code)
        /\ analyze_instruction(analysis, block.code[index], fact).rewrite.kind = "Multiple") =>
            LET insts == analyze_instruction(analysis, block.code[index], fact).rewrite.insts
            IN /\ ~Aborted'
               /\ block'.code = SubSeq(block.code, 1, index - 1) \o insts
                                   \o SubSeq(block.code, index + 1, Len(block.code))
               /\ Len(block'.code) = Len(block.code) - 1 + Len(insts)]_vars

\* the first k callbacks of the visit hold no instruction rewrite request and,
\* before the k-th, no exit callback
PlainUpTo(k) ==
    /\ \A j \in 1..k : trace[j].cb = "instruction" => trace[j].resp.kind = "None"
    /\ \A j \in 1..(k - 1) : trace[j].cb \notin {"exit", "join"}

\* C15: when every instruction callback answers with no request, a forward
\* visit calls the entry handler once, then the instruction handler exactly once
\* per instruction in block order, then the exit handler, and the instruction
\* sequence is as the graph holds it when the exit handler is called.
C15_PlainVisitOrder ==
    (ForwardRun /\ trace # <<>>) =>
        LET b == graph[label]
            n == Len(b.code)
        IN \A k \in 1..Len(trace) :
              (PlainUpTo(k) /\ trace[k].cb # "join") =>
                  /\ k <= n + 2
                  /\ k = 1 => trace[k].cb = "entry" /\ trace[k].item = b.entry
                  /\ (1 < k /\ k <= n + 1) =>
                        /\ trace[k].cb = "instruction"
                        /\ trace[k].at = k - 1
                        /\ trace[k].item = b.code[k - 1]
                  /\ k = n + 2 => trace[k].cb = "exit" /\ trace[k].item = b.exit
                  /\ (k = Len(trace) /\ pc \in {"code", "join", "loop"}
                        /\ (trace[k].cb = "exit" => trace[k].resp.kind = "Done")) =>
                        block.code = b.code

\* block 0 of the three-block loop: entry, three Loads answered None, exit
C15_Witness ==
    /\ LoopRun
    /\ label = 0
    /\ Len(trace) >= 5
    /\ PlainUpTo(5)
    /\ trace[5].cb = "exit"
    /\ trace[4].item = Load(2, 5)
    /\ block.code = graph[0].code

\* a join called on its own has been made: a is the fact joined into, b the
\* other fact
JoinCalled == mode = "join" /\ pc # "call"
JoinSelf == trace[1].fact_in
JoinOther == entry_fact
JoinChanged == trace[1].resp.changed

\* C16: for every fact a of each lattice, the bottom fact included, joining a
\* into a copy of a reports no change and leaves the fact equal to a.
C16_JoinIdempotent ==
    (JoinCalled /\ JoinSelf = JoinOther) =>
        /\ pc = "done"
        /\ ~JoinChanged
        /\ fact = JoinOther

\* the order of each lattice the joins are called on
LatticeLeq(lat, x, y) ==
    IF lat \in {"dataflow::DominatorFact", "pc::DominatorFact"}
    THEN DominatorLeq(x, y) ELSE ConstLeq(x, y)

\* C17: for a below b (bottom below every path, a longer path below each of
\* its prefixes; for constants, pointwise below), joining b into a copy of a
\* completes and yields a fact that is not lower than b.
C17_JoinMonotone ==
    (JoinCalled /\ LatticeLeq(analysis, JoinSelf, JoinOther)) =>
        /\ pc = "done"
        /\ LatticeLeq(analysis, JoinOther, fact)

\* the stored path cut at the first index where it differs from the incoming
\* path or the incoming path has ended
Truncated(p, q) ==
    LET diverge == {i \in 1..Len(p) : i > Len(q) \/ p[i] # q[i]}
    IN IF diverge = {} THEN p ELSE SubSeq(p, 1, Min(diverge) - 1)

\* C18: DominatorFact::join, for any stored path and any incoming path, cuts
\* the stored path at the first index where the two diverge, also when the
\* incoming path ends first, and reports a change exactly when it cut the path
\* or the receiving fact had no path.
C18_JoinTruncates ==
    (/\ JoinCalled
     /\ analysis \in {"dataflow::DominatorFact", "pc::DominatorFact"}
     /\ JoinOther.some) =>
        /\ pc = "done"
        /\ IF JoinSelf.some
           THEN /\ fact = Some(Truncated(JoinSelf.v, JoinOther.v))
                /\ JoinChanged <=> Truncated(JoinSelf.v, JoinOther.v) # JoinSelf.v
           ELSE /\ fact = JoinOther
                /\ JoinChanged

TraversalDone == mode = "post_order_traversal" /\ pc # "call"

\* the position of label l in the traversal's output, 0 if it is not in it
Position(seq, l) ==
    IF l \in Range(seq) THEN CHOOSE i \in 1..Len(seq) : seq[i] = l ELSE 0

\* C19: post_order_traversal(entry) terminates on every graph whose successor
\* labels all exist, cyclic ones included, and its output holds each label
\* reachable from entry exactly once and no other label.
C19_TraversalCoversReachable ==
    (TraversalDone /\ SuccessorsExist) =>
        /\ pc = "done"
        /\ NoDuplicates(to_visit)
        /\ Range(to_visit) = Reachable(graph, entry)

\* a cyclic graph all of whose labels are reached, the third through the
\* second successor of a Cond
C19_Witness ==
    /\ TraversalDone
    /\ graph = [l \in TravLabels |->
                   BasicBlock(l, <<>>, IF l = 1 THEN Cond(2, 3) ELSE Jump(1))]
    /\ to_visit = <<2, 3, 1>>

\* C20: in the output the entry label is last, and every label comes after
\* each of its successors, except the successors whose visit had not returned
\* when the label was pushed (the label itself or a depth-first ancestor of it,
\* which comes later in the output and from which the label is reachable).
C20_TraversalPostOrder ==
    (TraversalDone /\ SuccessorsExist) =>
        LET t == post_order_traversal(graph, entry)
        IN /\ to_visit # <<>>
           /\ Last(to_visit) = entry
           /\ \A l \in Range(to_visit) :
                 \A s \in Range(BlockSuccessors(graph[l])) :
                     /\ Position(to_visit, s) > 0
                     /\ \/ Position(to_visit, s) < Position(to_visit, l)
                        \/ /\ s \in t.open_at[l]
                           /\ Position(to_visit, s) >= Position(to_visit, l)
                           /\ l \in Reachable(graph, s)

\* the diamond: block 5 is pushed before its successor 2, which is still being
\* visited, and after it come 3, 4, 2 and the entry
C20_Witness ==
    /\ TraversalDone
    /\ graph = Diamond
    /\ to_visit = <<5, 3, 4, 2, 1>>
    /\ 2 \in post_order_traversal(graph, entry).open_at[5]

-----------------------------------------------------------------------------
(* Properties of the per-instruction engine (src/pc)                        *)

NextPcCalled == mode = "next_pc" /\ pc # "call"

\* the label handed to the operation is the last node of a region other than
\* the root
LastOfNonRoot ==
    /\ label.sub_graph # 0
    /\ label.index + 1 = Len(graph[label.sub_graph + 1].nodes)

\* the label after the entry label of the region of l
AfterEntry(g, l) == [backward_label(g, l) EXCEPT !.index = @ + 1]

\* C21: next_pc applied to the last node of a non-root region returns the
\* label that follows the region's recorded entry label in the enclosing
\* region, forwarded through the markers, instead of aborting.
C21_NextPcLeavesRegion ==
    (NextPcCalled /\ LastOfNonRoot) =>
        /\ pc = "done"
        /\ InBounds(graph, AfterEntry(graph, label)) =>
               output = forward_label_completely(graph, AfterEntry(graph, label))

ForwardLabelCalled == mode = "forward_label_completely" /\ pc # "call"

IsMarker(g, l) == InBounds(g, l) /\ get_node(g, l).node = "SubGraph"

\* the labels reached from the labels of S by following sub-graph markers to
\* offset 0 of the region they name
RECURSIVE FollowMarkers(_, _)
FollowMarkers(g, S) ==
    LET T == S \cup {LabelNew(get_node(g, l).sub_graph, 0) : l \in {x \in S : IsMarker(g, x)}}
    IN IF T = S THEN S ELSE FollowMarkers(g, T)

\* C22: forward_label_completely, given a label that addresses an existing
\* node, either returns the label of an instruction node reached by following
\* sub-graph markers to offset 0 of the region they name, or aborts because
\* the chain of markers exceeds the iteration ceiling (the chain never leaves
\* the markers); it never returns the label of a marker.
C22_ForwardLabelEndsAtInstruction ==
    (ForwardLabelCalled /\ InBounds(graph, label)) =>
        \/ /\ pc = "done"
           /\ output.label \in FollowMarkers(graph, {label})
           /\ InBounds(graph, output.label)
           /\ get_node(graph, output.label).node = "Instruction"
        \/ /\ pc = "panic_sub_graph_loop"
           /\ \A l \in FollowMarkers(graph, {label}) : IsMarker(graph, l)

\* the chain of two markers: from the root's marker through region 1 to the
\* first instruction of region 2
C22_Witness ==
    /\ ForwardLabelCalled
    /\ graph = NestedChain
    /\ label = LabelNew(0, 1)
    /\ pc = "done"
    /\ output.label = LabelNew(2, 0)

GetDisjointCalled == mode = "get_disjoint" /\ pc # "call"

\* the label addresses a fact of the fact base
InFactBase(l) ==
    /\ l.sub_graph < Len(fact_base)
    /\ l.index < Len(fact_base[l.sub_graph + 1])

\* C23: get_disjoint never hands out two references to the same fact slot: a
\* pair is returned only for two labels that differ (and then it is the slots
\* of these labels), and for two equal labels in range it returns None rather
\* than a pair or an abort.
C23_GetDisjointNeverAliases ==
    GetDisjointCalled =>
        /\ output.kind = "Some" =>
               /\ label # entry
               /\ output.first # output.second
               /\ output.first = label /\ output.second = entry
        /\ (label = entry /\ InFactBase(label)) => (pc = "done" /\ output.kind = "None")

ForwardAnalyzeRun == mode = "forward_analyze"

PcPanicStates == {"panic_index", "panic_unwrap", "panic_sub_graph_loop",
                  "panic_end_of_program", "panic_not_implemented"}

\* the labels control can move to from the instruction at l: the next one if
\* the instruction falls through, and its jumps
ControlSuccessors(g, l) ==
    LET succs == RiscSuccessors(get_node(g, l).inst)
    IN (IF succs.fallthrough THEN {[l EXCEPT !.index = @ + 1]} ELSE {})
       \cup Range(succs.jumps)

RECURSIVE ControlReachable(_, _)
ControlReachable(g, S) ==
    LET T == S \cup UNION {ControlSuccessors(g, l) : l \in {x \in S : InBounds(g, x)}}
    IN IF T = S THEN S ELSE ControlReachable(g, T)

HaltLike(g, l) == InBounds(g, l) /\ ControlSuccessors(g, l) = {}

\* no control path from the entry leaves the program, and each can end in a
\* halt-like instruction
AllPathsHalt(g) ==
    \A l \in ControlReachable(g, {ENTRY}) :
        /\ InBounds(g, l)
        /\ \E h \in ControlReachable(g, {l}) : HaltLike(g, h)

\* C24: forward_analyze returns a fact base, without aborting, for every
\* single-region program whose control paths all end in a halt-like
\* instruction, also when the halt is the last instruction of the program and
\* the program has a loop, as in the test constant_prop.
C24_ForwardAnalyzeCompletes ==
    (ForwardAnalyzeRun /\ AllPathsHalt(graph)) => pc \notin PcPanicStates

\* ---------------------------------------------------------------------------
\* One backward block visit
\* ---------------------------------------------------------------------------

\* the callbacks of the block visit under way or just ended: the trace up to
\* and including the entry callback, the whole trace while there is none
EntryAt == {i \in 1..Len(trace) : trace[i].cb = "entry"}
VisitEnded == BackwardVisit /\ Len(trace) < MaxTrace /\ EntryAt # {}
VisitLen == CHOOSE i \in EntryAt : TRUE
LastExit == CHOOSE i \in 1..VisitLen : trace[i].cb = "exit" /\ trace[i].resp.kind = "None"
Unrequested(tr) == SelectSeq(tr, LAMBDA e : e.cb = "instruction" /\ e.resp.kind = "None")
Items(tr) == [i \in 1..Len(tr) |-> tr[i].item]
\* the fact the visit started from
VisitFact == IF mode = "fixed_point_backward_block" THEN fact_base[label] ELSE analysed[label]

\* C25: one backward visit of a block offers the exit to the exit handler
\* again and again until the handler makes no request for it, then offers the
\* instructions of the block last to first, each one until the handler makes
\* no request for it, every callback starting from the fact the one before
\* returned, and calls the entry handler exactly once, last, with that fact.
C25_BackwardVisitOrder ==
    VisitEnded =>
        /\ Cardinality(EntryAt) = 1
        /\ \E e \in 1..(VisitLen - 1) :
              /\ \A i \in 1..(VisitLen - 1) : (trace[i].cb = "exit") <=> (i <= e)
              /\ \A i \in (e + 1)..(VisitLen - 1) : trace[i].cb = "instruction"
              /\ \A i \in 1..e : (trace[i].resp.kind = "None") <=> (i = e)
              /\ trace[1].item = graph[label].exit
              /\ \A i \in 1..(e - 1) : trace[i + 1].item = trace[i].resp.exit
              /\ rewritten[label].exit = trace[e].item
        /\ trace[1].fact_in = VisitFact
        /\ \A i \in 1..(VisitLen - 1) : trace[i + 1].fact_in = trace[i].fact_out
        /\ \A i \in (LastExit + 1)..(VisitLen - 1) :
              trace[i].resp.kind = "Single" =>
                  /\ trace[i + 1].cb = "instruction"
                  /\ trace[i + 1].item = trace[i].resp.inst
        /\ Items(Unrequested(SubSeq(trace, 1, VisitLen))) = Reverse(rewritten[label].code)

\* a visit that ended after the exit handler asked for more instructions and
\* a new exit, and an instruction handler asked for a replacement, with three
\* or more instructions left alone
C25_Witness ==
    /\ VisitEnded
    /\ pc = "done"
    /\ \E i \in 1..VisitLen : trace[i].cb = "exit" /\ trace[i].resp.kind = "Extend"
    /\ \E i \in 1..VisitLen : trace[i].cb = "instruction" /\ trace[i].resp.kind = "Multiple"
    /\ Len(Unrequested(trace)) >= 3

\* ---------------------------------------------------------------------------
\* The backward graph loop
\* ---------------------------------------------------------------------------

\* C26: in the backward engine, when the visit of a block has returned, the
\* for loop takes each direct predecessor of the block once; the fact returned
\* for the predecessor is joined into the predecessor's entry of the fact
\* base, an absent entry starting at bottom, no other entry is touched, and the
\* predecessor is appended to the worklist exactly when the join reports a
\* change and the worklist does not hold it yet.
C26_PredecessorsJoined ==
    [][BackwardGraphRun =>
        /\ (pc = "rcode" /\ pc' \in {"join", "loop"}) =>
              /\ Range(pending') = direct_predecessors(graph, label)
              /\ NoDuplicates(pending')
              /\ (pc' = "loop") <=> (pending' = <<>>)
        /\ (pc = "join" /\ ~Aborted') =>
              LET p == Head(pending)
                  old == IF p \in DOMAIN fact_base THEN fact_base[p] ELSE Bottom(analysis)
                  j == Join(analysis, old, output[p])
              IN /\ DOMAIN fact_base' = DOMAIN fact_base \cup {p}
                 /\ fact_base'[p] = j.fact
                 /\ \A l \in DOMAIN fact_base \ {p} : fact_base'[l] = fact_base[l]
                 /\ (j.changed /\ p \notin Range(to_visit)) => to_visit' = Append(to_visit, p)
                 /\ ~(j.changed /\ p \notin Range(to_visit)) => to_visit' = to_visit
                 /\ pending' = Tail(pending)
                 /\ (pc' = "loop") <=> (pending' = <<>>)]_vars

\* the joins that follow one visit: one created the entry of a predecessor,
\* changed it and pushed the predecessor, another changed nothing
C26_Witness ==
    /\ BackwardGraphRun
    /\ pc = "loop"
    /\ Len(trace) < MaxTrace
    /\ \E i, k \in 1..Len(trace) :
          /\ trace[i].cb = "join" /\ trace[i].resp.changed /\ ~trace[i].resp.was_pending
          /\ trace[i].resp.created
          /\ trace[i].item \in Range(to_visit)
          /\ trace[k].cb = "join" /\ ~trace[k].resp.changed

\* the post-order traversal of the run, and the worklist being what is left of
\* its seed: the first n labels of the reversed traversal, no label pushed
Listing == post_order_traversal(graph, entry).output
SeedLeft(tv) ==
    /\ Len(tv) <= Len(Listing)
    /\ \A i \in 1..Len(tv) : tv[i] = Listing[Len(Listing) + 1 - i]

\* C27: the backward engine starts from a worklist that holds the post-order
\* traversal reversed and takes labels from its end: as long as the worklist
\* is what is left of that seed, the k-th label taken is the k-th label of the
\* traversal, so the first label of the traversal is taken first and the
\* entry label, the last of the traversal, is taken last.
C27_BackwardDequeueOrder ==
    [][BackwardGraphRun =>
        /\ (pc = "call" /\ pc' = "loop") =>
              /\ Len(to_visit') = Len(Listing)
              /\ SeedLeft(to_visit')
              /\ Last(Listing) = entry
        /\ (pc = "loop" /\ to_visit # <<>> /\ SeedLeft(to_visit)) =>
              /\ label' = Listing[Len(Listing) + 1 - Len(to_visit)]
              /\ Len(to_visit') = Len(to_visit) - 1
              /\ SeedLeft(to_visit')]_vars

\* the three blocks of constant_test taken in the order of the traversal,
\* exit block first: the entry block has just been taken, last
C27_Witness ==
    /\ mode = "fixed_point_backward_graph"
    /\ graph = ThreeBlockLoop
    /\ Listing = <<2, 1, 0>>
    /\ pc = "exit"
    /\ label = entry
    /\ to_visit = <<>>
    /\ DOMAIN analysed = {0, 1, 2}
    /\ trace = <<>>

\* ---------------------------------------------------------------------------
\* Block::new
\* ---------------------------------------------------------------------------

BlockNewCalled == mode = "Block::new" /\ pc = "done"

\* C28: Block::new produces a block exactly when the code is not empty, its
\* first instruction has a label and its last instruction has a list of
\* successors; the label of the block is then the label of the first
\* instruction, its successors are the successors of the last instruction and
\* its code is the code given; in every other case it produces no block.
C28_BlockNew ==
    BlockNewCalled =>
        IF graph # <<>> /\ IsSome(graph[1].label) /\ IsSome(graph[Len(graph)].successors)
        THEN /\ IsSome(output)
             /\ Unwrap(output).label = Unwrap(graph[1].label)
             /\ Unwrap(output).successors = Unwrap(graph[Len(graph)].successors)
             /\ Unwrap(output).code = graph
        ELSE output = NoneOf

\* a block made from two instructions, the first with successors of its own
\* and the last with a label of its own
C28_Witness ==
    /\ BlockNewCalled
    /\ IsSome(output)
    /\ Len(graph) = 2
    /\ IsSome(graph[1].successors)
    /\ graph[1].successors # graph[2].successors
    /\ IsSome(graph[2].label)
    /\ graph[2].label # graph[1].label

\* ---------------------------------------------------------------------------
\* The exit loop of a forward block visit
\* ---------------------------------------------------------------------------

Unasked(i, k) == \A q \in 1..k : trace[i + q].resp.kind = "None"

\* C29: in a forward visit, after the exit handler answers Extend(insts, exit)
\* the next callbacks are the instruction handler on the appended instructions,
\* in their order, at the positions after the old end of the code and each
\* starting from the fact the callback before it left, no instruction before
\* the old end being offered again, and after them the exit handler on the new
\* exit; after Single(exit) the next callback is the exit handler on the new
\* exit, from the same fact; the joins into the successors, which follow the
\* end of the visit, come only after an exit callback answered Done, and after
\* any other answer the visit goes on.
C29_ForwardExitLoop ==
    ForwardRun =>
        \A i \in 1..Len(trace) :
            /\ trace[i].cb = "exit" =>
                  /\ trace[i].resp.kind = "Single" /\ i < Len(trace) =>
                        /\ trace[i + 1].cb = "exit"
                        /\ trace[i + 1].item = trace[i].resp.exit
                        /\ trace[i + 1].at = trace[i].at
                        /\ trace[i + 1].fact_in = trace[i].fact_out
                  /\ trace[i].resp.kind = "Extend" =>
                        LET insts == trace[i].resp.insts
                            k == Len(insts)
                        IN /\ \A m \in 1..k :
                                  (i + m <= Len(trace) /\ Unasked(i, m - 1)) =>
                                      /\ trace[i + m].cb = "instruction"
                                      /\ trace[i + m].item = insts[m]
                                      /\ trace[i + m].at = trace[i].at + m - 1
                                      /\ trace[i + m].fact_in = trace[i + m - 1].fact_out
                           /\ (i + k + 1 <= Len(trace) /\ Unasked(i, k)) =>
                                  /\ trace[i + k + 1].cb = "exit"
                                  /\ trace[i + k + 1].item = trace[i].resp.exit
                                  /\ trace[i + k + 1].at = trace[i].at + k
                                  /\ trace[i + k + 1].fact_in = trace[i + k].fact_out
                           /\ \A j \in (i + 1)..Len(trace) :
                                  trace[j].cb = "instruction" => trace[j].at >= trace[i].at
                  /\ trace[i].resp.kind \in {"Single", "Extend"} =>
                        IF i < Len(trace) THEN trace[i + 1].cb \in {"instruction", "exit"}
                        ELSE Len(trace) = MaxTrace \/ pc = "code"
                  /\ trace[i].resp.kind = "Done" =>
                        \A j \in (i + 1)..Len(trace) : trace[j].cb = "join"
            /\ (trace[i].cb = "join" /\ i > 1 /\ trace[i - 1].cb # "join") =>
                  trace[i - 1].cb = "exit" /\ trace[i - 1].resp.kind = "Done"

\* a visit that ended after the exit handler asked for two more instructions
\* and a new exit: the two were offered and left alone, then the new exit was
\* offered and answered Done
C29_Witness ==
    /\ ForwardRun
    /\ \E i \in 1..Len(trace) :
          /\ i > 2
          /\ trace[i].cb = "exit"
          /\ trace[i].resp.kind = "Extend"
          /\ Len(trace[i].resp.insts) = 2
          /\ i + 3 <= Len(trace)
          /\ Unasked(i, 2)
          /\ trace[i + 3].cb = "exit"
          /\ trace[i + 3].resp.kind = "Done"

\* ---------------------------------------------------------------------------
\* replace_many in a backward block visit
\* ---------------------------------------------------------------------------

\* the last n instructions of the code: those the visit is done with when its
\* counter is n
AnalysedSuffix(code, n) == SubSeq(code, Len(code) - n + 1, Len(code))

\* the callbacks that follow a replace_many of k >= 1 instructions asked at
\* position p: the replacements last to first, at the positions p + k - 1 down
\* to p, as long as the handler leaves them alone, then the instruction before
\* position p, or the entry handler when there is none
ManyThenReverse ==
    \A i \in 1..Len(trace) :
        (/\ trace[i].cb = "instruction"
         /\ trace[i].resp.kind = "Multiple"
         /\ Len(trace[i].resp.insts) >= 1) =>
            LET insts == trace[i].resp.insts
                k == Len(insts)
                at == trace[i].at
            IN /\ \A m \in 1..k :
                      (i + m <= Len(trace) /\ Unasked(i, m - 1)) =>
                          /\ trace[i + m].cb = "instruction"
                          /\ trace[i + m].item = insts[k + 1 - m]
                          /\ trace[i + m].at = at + k - m
                          /\ trace[i + m].fact_in = trace[i + m - 1].fact_out
               /\ (i + k + 1 <= Len(trace) /\ Unasked(i, k)) =>
                      IF at = 1 THEN trace[i + k + 1].cb = "entry"
                      ELSE /\ trace[i + k + 1].cb = "instruction"
                           /\ trace[i + k + 1].at = at - 1

\* C30: in a backward visit, when the instruction handler asks replace_many
\* with k >= 1 instructions for the instruction at position i, the code
\* becomes the instructions before i, the k replacements, and the instructions
\* after i, which the visit is done with and which stay as they are and are
\* not counted again; the instruction offered next is the last replacement,
\* and the callbacks that follow take the replacements last to first.
C30_BackwardReplaceMany ==
    [][BackwardVisit =>
        /\ (pc = "rcode" /\ index < Len(block.code)) =>
              LET len == Len(block.code)
                  at == len - index
                  r == BackwardProbeAnalyzeInstruction(block.code[at], fact).rewrite
              IN (r.kind = "Multiple" /\ Len(r.insts) >= 1) =>
                    /\ block'.code = SubSeq(block.code, 1, at - 1) \o r.insts
                                         \o SubSeq(block.code, at + 1, len)
                    /\ pc' = "rcode"
                    /\ index' = index
                    /\ AnalysedSuffix(block'.code, index') = AnalysedSuffix(block.code, index)
                    /\ block'.code[Len(block'.code) - index'] = r.insts[Len(r.insts)]
        /\ ManyThenReverse']_vars

\* a visit that ended after two instructions were asked in place of the
\* second of three: the third had been offered before, the two replacements
\* were offered last to first, then the first instruction, then the entry
C30_Witness ==
    /\ VisitEnded
    /\ \E i \in 2..Len(trace) :
          /\ trace[i].cb = "instruction"
          /\ trace[i].resp.kind = "Multiple"
          /\ Len(trace[i].resp.insts) = 2
          /\ trace[i].at = 2
          /\ trace[i - 1].cb = "instruction"
          /\ trace[i - 1].at = 3
          /\ i + 4 <= Len(trace)
          /\ Unasked(i, 3)
          /\ trace[i + 3].at = 1
          /\ trace[i + 4].cb = "entry"
          /\ Len(rewritten[label].code) = 6

\* ---------------------------------------------------------------------------
\* The order in which the forward engine takes the labels
\* ---------------------------------------------------------------------------

\* the worklist being what is left of the forward seed: the first n labels of
\* the post-order traversal
ForwardSeedLeft(tv) ==
    /\ Len(tv) <= Len(Listing)
    /\ \A i \in 1..Len(tv) : tv[i] = Listing[i]

\* C31: the forward engine starts from a worklist that holds the post-order
\* traversal and takes labels from its end: the first label taken is the
\* entry label, and its visit starts from the entry fact of the caller; as
\* long as the worklist is what is left of that seed, the k-th label taken is
\* the k-th label from the end of the traversal.
C31_ForwardDequeueOrder ==
    [][ForwardRun =>
        /\ (pc = "call" /\ pc' = "loop") =>
              /\ Len(to_visit') = Len(Listing)
              /\ ForwardSeedLeft(to_visit')
              /\ Last(to_visit') = entry
        /\ (pc = "loop" /\ to_visit # <<>> /\ ForwardSeedLeft(to_visit)) =>
              /\ label' = Listing[Len(to_visit)]
              /\ Len(to_visit') = Len(to_visit) - 1
              /\ ForwardSeedLeft(to_visit')
        /\ (pc = "loop" /\ DOMAIN analysed = {} /\ to_visit # <<>>) =>
              /\ label' = entry
              /\ pc' = "entry"
              /\ fact' = entry_fact
              /\ analysed' = MapInsert(EmptyMap, entry, entry_fact)]_vars

\* constant_test: the entry block 0 was taken first, block 1 has just been
\* taken second and block 2 is left, the traversal being 2, 1, 0
C31_Witness ==
    /\ ForwardRun
    /\ graph = ThreeBlockLoop
    /\ Listing = <<2, 1, 0>>
    /\ pc = "entry"
    /\ label = 1
    /\ to_visit = <<2>>
    /\ DOMAIN analysed = {0, 1}
    /\ analysed[0] = entry_fact

\* ---------------------------------------------------------------------------
\* The result of forward_analyze
\* ---------------------------------------------------------------------------

\* the instructions the run analysed
Analysed == Range(trace)

\* the answer of the client for the instruction at l when its fact is f
AnswerAt(l, f) == PcAnalyze(analysis, l, get_instruction(graph, l).inst, f)

\* the fact the instruction at l hands to its successors when its fact is f
OutgoingFact(l, f) == IF AnswerAt(l, f).kind = "NoChange" THEN f ELSE AnswerAt(l, f).fact

\* C32: when forward_analyze returns, the fact base is a fixed point: for
\* every instruction the run analysed and each of its successors (the
\* fallthrough and every jump target, the instruction's own label included),
\* joining the outgoing fact of the instruction, computed from its final
\* fact, into the fact of the successor reports no change.
C32_FixedPointOnReturn ==
    (ForwardAnalyzeRun /\ pc = "done") =>
        \A l \in Analysed : \A s \in ControlSuccessors(graph, l) :
            ~PcJoin(analysis, FactAt(output, s), OutgoingFact(l, FactAt(output, l))).changed

\* ---------------------------------------------------------------------------
\* One iteration of the 'path loop
\* ---------------------------------------------------------------------------

\* the instruction at the current label, its successors and its fallthrough
CurrentInstruction == get_instruction(graph, label).inst
CurrentSuccessors == RiscSuccessors(CurrentInstruction)
CurrentFallthrough == next_pc(graph, label).label

\* the iteration gets as far as asking the client: the instruction and the
\* next label are found and the two facts are borrowed
ClientAsked ==
    /\ ForwardAnalyzeRun
    /\ pc = "path"
    /\ get_instruction(graph, label).end = "done"
    /\ next_pc(graph, label).end = "done"
    /\ get_disjoint(fact_base, CurrentFallthrough, label).kind = "Some"

\* C33: when the client answers NoChange for an instruction with a
\* fallthrough and jumps, the fact joined into each jump target is the fact
\* stored for the analysed instruction, the one joined into the fallthrough,
\* whether or not the join into the fallthrough reported a change.
C33_JumpTargetsGetOwnFact ==
    [][(/\ ClientAsked
        /\ AnswerAt(label, FactAt(fact_base, label)).kind = "NoChange"
        /\ CurrentSuccessors.fallthrough
        /\ pc' \notin PcPanicStates) =>
            \A t \in Range(CurrentSuccessors.jumps) \ {label, CurrentFallthrough} :
                FactAt(fact_base', t) =
                    PcJoin(analysis, FactAt(fact_base, t), FactAt(fact_base, label)).fact]_vars

\* the instruction at the current label jumps to its own label, or falls
\* through and jumps to its fallthrough label
JumpsToSelfOrNext ==
    \/ label \in Range(CurrentSuccessors.jumps)
    \/ /\ CurrentSuccessors.fallthrough
       /\ CurrentFallthrough \in Range(CurrentSuccessors.jumps)

\* C34: forward_analyze does not abort on an instruction that jumps to its
\* own label, nor on a conditional jump to its fallthrough label: the step
\* that analyses such an instruction ends without a panic.
C34_NoAbortOnAliasedSuccessors ==
    [][(ClientAsked /\ JumpsToSelfOrNext) => pc' \notin PcPanicStates]_vars

\* C35: get_disjoint called with two different labels that both address a
\* fact returns the pair of the slot of the first label, to write, and the
\* slot of the second, to read; it returns None when either label is out of
\* range.
C35_GetDisjointDistinct ==
    GetDisjointCalled =>
        /\ (label # entry /\ InFactBase(label) /\ InFactBase(entry)) =>
               /\ pc = "done"
               /\ output.kind = "Some"
               /\ output.first = label
               /\ output.second = entry
        /\ (~InFactBase(label) \/ ~InFactBase(entry)) =>
               (pc = "done" /\ output.kind = "None")

\* the slots of L1.1 and L0.0, in regions of which the second comes first in
\* the fact base
C35_Witness ==
    /\ GetDisjointCalled
    /\ label = LabelNew(1, 1)
    /\ entry = LabelNew(0, 0)
    /\ InFactBase(label)
    /\ pc = "done"
    /\ output.kind = "Some"
    /\ output.first = LabelNew(1, 1)
    /\ output.second = LabelNew(0, 0)

\* C39: a Single or Many answer of the client aborts the run: the step ends
\* in the panic of the unimplemented arms with the fact base and the working
\* set as they were but for the removal of the label, nothing is returned,
\* and a run is in that panic only after such an answer.
C39_RewriteAnswersAbort ==
    [][/\ (ClientAsked
           /\ AnswerAt(label, FactAt(fact_base, label)).kind \in {"Single", "Many"}) =>
              /\ pc' = "panic_not_implemented"
              /\ fact_base' = fact_base
              /\ to_visit' = to_visit \ {label}
              /\ output' = output
       /\ (ForwardAnalyzeRun /\ pc' = "panic_not_implemented") =>
              \/ pc = "panic_not_implemented" /\ output' = output
              \/ /\ ClientAsked
                 /\ AnswerAt(label, FactAt(fact_base, label)).kind \in {"Single", "Many"}]_vars

\* the Add of two known constants was answered with Single(Load)
C39_Witness ==
    /\ ForwardAnalyzeRun
    /\ analysis = "PcProbe"
    /\ pc = "panic_not_implemented"
    /\ graph = GraphNew(<<Load(0, 1), Add(1, 0, 0), Ret>>)
    /\ label = LabelNew(0, 1)
    /\ FactAt(fact_base, label) = ConstPair(0, Elem(1))

\* ---------------------------------------------------------------------------
\* The fact a forward visit starts from
\* ---------------------------------------------------------------------------

\* C36: whenever the forward engine takes from the worklist a label that
\* exists in the graph, the fact base holds a fact for it: the visit starts
\* from that fact and the expectation 'We should always have a fact to start
\* from' does not fail. Checked on every forward run, those on graphs whose
\* successor labels all exist and with Done maps that cover the successors
\* included.
C36_PoppedLabelHasFact ==
    [][(/\ ForwardRun
        /\ pc = "loop"
        /\ to_visit # <<>>
        /\ contains(graph, Last(to_visit))) =>
            /\ Last(to_visit) \in DOMAIN fact_base
            /\ pc' = "entry"
            /\ label' = Last(to_visit)
            /\ fact' = fact_base[Last(to_visit)]]_vars

\* a label of the seed other than the entry is taken for the first time, and
\* the fact it starts from is the bottom fact that a join without change left
C36_Witness ==
    /\ ForwardRun
    /\ SuccessorsExist
    /\ pc = "entry"
    /\ label # entry
    /\ DOMAIN analysed = {entry, label}
    /\ fact = Bottom(analysis)
    /\ fact_base[label] = fact

\* ---------------------------------------------------------------------------
\* The labels a forward visit joins into
\* ---------------------------------------------------------------------------

EngineRun == ForwardRun \/ BackwardRun \/ BackwardVisit

\* a fact of the lattice of the client: a path or none, or constants of
\* variables
IsFact(a, f) ==
    IF a = "DominatorAnalysis" THEN f = None \/ f = Some(f.v)
    ELSE \A k \in DOMAIN f : f[k] = Top \/ f[k] = Elem(f[k].c)

\* C38: forward_analysis and backward_analysis leave the graph as it was
\* given: a step that rewrites changes the block of the visit, a copy, and
\* not the block of the graph, and what is returned holds facts only.
C38_GraphUnchanged ==
    [][EngineRun =>
        /\ graph' = graph
        /\ (pc \in {"code", "exit"} /\ block' # block) =>
               (label' = label /\ graph'[label] = graph[label])
        /\ pc' = "done" =>
               \A l \in DOMAIN fact_base' : IsFact(analysis, fact_base'[l])]_vars

\* forward_analysis returned after a visit that rewrote its block: the graph
\* holds the block as it was
C38_Witness ==
    /\ ForwardRun
    /\ Returned
    /\ \E l \in DOMAIN rewritten : rewritten[l] # graph[l]
    /\ DOMAIN fact_base # {}

====
